---- MODULE Spec2Model ----
(***************************************************************************)
(* Stateless OAuth callback / state-token protocol of api/oauth:           *)
(* OAuthProvider (base_oauth.py), the Google and Apple routes that use it, *)
(* and the token generators of jwt_utils.py.                               *)
(*                                                                         *)
(* One callback is handled at a time; the handler is a sequence of steps   *)
(* (pc) that follow the statements of OAuthProvider.handle_callback, with  *)
(* Python's exception flow made explicit: `exc` is the exception in        *)
(* flight, and a local that was never assigned holds UNBOUND.              *)
(***************************************************************************)
EXTENDS Integers, Sequences, FiniteSets, TLC

\* ------------------------------------------------------------------ bounds
MaxTicks == 2          \* clock advances per behaviour
MaxIssued == 2         \* /state requests per behaviour

\* --------------------------------------------------------------- constants
StateTtl == 600        \* state_ttl_seconds of both providers
HTTP_BAD_REQUEST == 400
HTTP_SERVER_ERROR == 500
HTTP_BAD_GATEWAY == 502
HTTP_OK == 200
HTTP_FOUND == 302

NONE == "NONE"         \* Python None / absent key (string-valued slots)
UNBOUND == "UNBOUND"   \* a local variable that was never assigned
None == [none |-> TRUE]        \* Python None (record-valued slots)
Unbound == [unbound |-> TRUE]  \* never-assigned local (record-valued slots)

Secret == "server-secret"      \* self.state_secret
OtherSecret == "other-secret"  \* any key that is not the provider's

NonceOf(k) == IF k = 1 THEN "N1" ELSE IF k = 2 THEN "N2" ELSE "N3"

\* ----------------------------------------------------- platform handling
\* str.lower() on the platform strings of the model
Lower(s) ==
    CASE s = "WEB" -> "web"
      [] s = "Android" -> "android"
      [] s = "AnDrOiD" -> "android"
      [] s = "iOS" -> "ios"
      [] OTHER -> s

\* variant of _normalize_platform: the default, but no lower-casing
NormalizeNoLower(platform) ==
    IF platform = NONE \/ platform = "" THEN "web" ELSE platform

\* OAuthProvider._normalize_platform and the _normalize_platform of the
\* Google and Apple modules: (platform or "web").lower()
_normalize_platform(platform) ==
    IF platform = NONE \/ platform = "" THEN "web" ELSE Lower(platform)

\* ------------------------------------------------------------ state token
\* jwt.encode(payload, secret): the signature binds the key and the payload
Sign(payload, key) == [key |-> key, over |-> payload]

\* dict.update: the entries of `other` replace and extend those of `d`
DictUpdate(d, other) ==
    [k \in DOMAIN d \cup DOMAIN other |->
        IF k \in DOMAIN other THEN other[k] ELSE d[k]]

\* OAuthProvider._encode_state_cookie; a claim the token does not carry
\* (payload.get gives None) is held as NONE
_encode_state_cookie(state, platform, extra, t) ==
    LET base == [state |-> state, platform |-> platform, iat |-> t,
                 exp |-> t + StateTtl,
                 code_verifier |-> NONE, return_url |-> NONE]
        payload == DictUpdate(base, extra)
    IN  [payload |-> payload, sig |-> Sign(payload, Secret)]

HttpExc(status, detail) == [type |-> "HTTPException", status |-> status, detail |-> detail]
OtherExc(type) == [type |-> type, status |-> 0, detail |-> ""]
NoExc == [type |-> NONE, status |-> 0, detail |-> ""]

\* variant of _decode_state_cookie: the exp claim is not looked at
DecodeNoExpiry(token, t) ==
    IF token.sig # Sign(token.payload, Secret)
    THEN [ok |-> FALSE, exc |-> HttpExc(HTTP_BAD_REQUEST, "Invalid state token")]
    ELSE [ok |-> TRUE, payload |-> token.payload]

\* OAuthProvider._decode_state_cookie with jose's jwt.decode: signature
\* first, then the exp claim (rejected when exp < now)
_decode_state_cookie(token, t) ==
    IF token.sig # Sign(token.payload, Secret)
    THEN [ok |-> FALSE, exc |-> HttpExc(HTTP_BAD_REQUEST, "Invalid state token")]
    ELSE IF token.payload.exp < t
    THEN [ok |-> FALSE, exc |-> HttpExc(HTTP_BAD_REQUEST, "State token has expired")]
    ELSE [ok |-> TRUE, payload |-> token.payload]

\* variant of _verify_state_and_get_payload: the claims are read from the
\* cookie without verifying it
VerifyUnverifiedClaims(cookie, state, t) ==
    IF cookie.payload.state = state
    THEN [ok |-> TRUE, payload |-> cookie.payload]
    ELSE [ok |-> FALSE, exc |-> HttpExc(HTTP_BAD_REQUEST, "Invalid state parameter")]

\* variant of _verify_state_and_get_payload: the nonce of the token is not
\* compared with the state parameter
VerifyIgnoresNonce(cookie, state, t) ==
    LET d == _decode_state_cookie(cookie, t)
    IN  IF d.ok THEN d
        ELSE [ok |-> FALSE, exc |-> HttpExc(HTTP_BAD_REQUEST, "Invalid state parameter")]

\* OAuthProvider._verify_state_and_get_payload: every failure, the decode
\* errors included, is re-raised as 400 "Invalid state parameter"
_verify_state_and_get_payload(cookie, state, t) ==
    LET d == _decode_state_cookie(cookie, t)
    IN  IF d.ok /\ d.payload.state = state THEN d
        ELSE [ok |-> FALSE, exc |-> HttpExc(HTTP_BAD_REQUEST, "Invalid state parameter")]

\* ------------------------------------------------------------- variables
VARIABLES
    now,            \* time.time(), in seconds
    ticks,          \* clock advances so far
    issued,         \* nonces drawn so far by create_state_response
    browserCookie,  \* the state cookie last set by /state (None: no cookie)
    stateResponse,  \* the last answer of /state
    configs,        \* platforms with a loaded config of this provider
    tokenGen,       \* self.token_generator_func: "default" (None) or "injected"
    storageFunc,    \* self.storage_func: "none" or "injected"
    pc,             \* position of the callback handler
    request,        \* the callback request being handled
    locals,         \* local variables of handle_callback
    exc,            \* exception in flight
    response,       \* local `response` of handle_callback (None: not built)
    calls,          \* collaborators invoked by this callback
    outcome,        \* what handle_callback gave the framework
    fnArgs,         \* arguments of a function applied on its own
    fnResult        \* what that function gave

envVars == <<now, ticks, issued, browserCookie, stateResponse, configs, tokenGen,
            storageFunc, fnArgs, fnResult>>
handlerVars == <<pc, request, locals, exc, response, calls, outcome>>
vars == <<now, ticks, issued, browserCookie, stateResponse, configs, tokenGen,
          storageFunc, fnArgs, fnResult,
          pc, request, locals, exc, response, calls, outcome>>

\* --------------------------------------------------------------- requests
NoParams == [code |-> NONE, state |-> NONE, platform |-> NONE]
NoRequest == [method |-> NONE, query |-> NoParams, form |-> NoParams,
              cookie |-> None, should_redirect |-> FALSE]

QueryParams == [code : {NONE, "", "abc"}, state : {NONE, "", "N1", "N2"},
                platform : {NONE, "android"}]
FormParams == [code : {NONE, "abc"}, state : {NONE, "N1"},
               platform : {NONE, "android"}]
\* the query strings that come with a form
PostQueryParams == {NoParams, [code |-> "abc", state |-> "N2", platform |-> NONE]}

\* a cookie whose payload was altered after signing
Tampered(token) ==
    [token EXCEPT !.payload.platform =
        IF token.payload.platform = "android" THEN "web" ELSE "android"]

\* a token signed by somebody who does not hold the provider's secret
Forged(state, t) ==
    LET payload == [state |-> state, platform |-> "android", iat |-> t,
                    exp |-> t + StateTtl, code_verifier |-> NONE,
                    return_url |-> NONE]
    IN  [payload |-> payload, sig |-> Sign(payload, OtherSecret)]

\* the state cookies a client can present
RequestCookies ==
    {None, Forged("N1", now)}
        \cup (IF browserCookie = None THEN {}
              ELSE {browserCookie, Tampered(browserCookie)})

\* dict(request.query_params), updated with the form of a POST
MergedParams(req) ==
    IF req.method = "POST"
    THEN [k \in {"code", "state", "platform"} |->
             IF req.form[k] # NONE THEN req.form[k] ELSE req.query[k]]
    ELSE req.query

InitLocals == [code |-> UNBOUND, state |-> UNBOUND, platform |-> UNBOUND,
               code_verifier |-> UNBOUND, return_url |-> UNBOUND,
               config |-> Unbound, result |-> Unbound, user_info |-> Unbound,
               token |-> Unbound]
NoCalls == [config_loader |-> NONE, exchange |-> FALSE, endpoint_status |-> 0,
            endpoint_body |-> NONE, storage |-> "not_called"]
NoOutcome == [kind |-> NONE, exc |-> NONE]
NoStateResponse == [status |-> 0, state |-> NONE, platform |-> NONE,
                    set_cookie |-> None]
NoArgs == [op |-> NONE]
NoResult == [none |-> TRUE]

Init ==
    /\ now = 0
    /\ ticks = 0
    /\ issued = 0
    /\ browserCookie = None
    /\ stateResponse = NoStateResponse
    /\ configs = {"web", "android"}
    /\ tokenGen \in {"default", "injected"}
    /\ storageFunc \in {"none", "injected"}
    /\ pc = "idle"
    /\ request = NoRequest
    /\ locals = InitLocals
    /\ exc = NoExc
    /\ response = None
    /\ calls = NoCalls
    /\ outcome = NoOutcome
    /\ fnArgs = NoArgs
    /\ fnResult = NoResult

\* time passes
TickSteps == {1, StateTtl}

Tick ==
    /\ pc \in {"idle", "return_url", "exchange"}
    /\ ticks < MaxTicks
    /\ \E d \in TickSteps : now' = now + d
    /\ ticks' = ticks + 1
    /\ UNCHANGED <<issued, browserCookie, stateResponse, configs, tokenGen,
                   storageFunc, fnArgs, fnResult>>
    /\ UNCHANGED handlerVars

\* ------------------------------------------------------ provider configs
ProviderName == "Google"
ConfigDirs == {{"web", "android"}, {"web"}}   \* contents of the config directory
PlatformInputs == {NONE, "web", "WEB", "android"}
VerifierInputs == {NONE, "cv1"}

\* AuthConfigManager.get_auth_config behind get_platform_config: the config
\* of exactly this platform, or HTTPException 500
get_platform_config(platform, loaded) ==
    IF Lower(platform) \in loaded
    THEN [ok |-> TRUE,
          config |-> [platform |-> platform, client_id |-> Lower(platform),
                      token_endpoint |-> "https://oauth2.googleapis.com/token"]]
    ELSE [ok |-> FALSE,
          exc |-> HttpExc(HTTP_SERVER_ERROR, "not properly configured")]

\* AuthConfigManager.reload: the configs become those of the directory
Reload ==
    /\ pc = "idle"
    /\ \E dir \in ConfigDirs : configs' = dir
    /\ UNCHANGED <<now, ticks, issued, browserCookie, stateResponse, tokenGen,
                   storageFunc, fnArgs, fnResult>>
    /\ UNCHANGED handlerVars

\* POST /auth/google/state
issue_state_post(platformInput, code_verifier) ==
    /\ pc = "idle"
    /\ issued < MaxIssued
    /\ IF platformInput = NONE \/ platformInput = ""
       THEN /\ stateResponse' = [NoStateResponse EXCEPT !.status = HTTP_BAD_REQUEST]
            /\ UNCHANGED <<issued, browserCookie>>
       ELSE LET platform == _normalize_platform(platformInput)
                state == NonceOf(issued + 1)
                extra == [code_verifier |-> code_verifier, return_url |-> NONE]
                signed == _encode_state_cookie(state, platform, extra, now)
            IN  IF ~ get_platform_config(platform, configs).ok
                THEN /\ stateResponse' =
                           [NoStateResponse EXCEPT !.status = HTTP_SERVER_ERROR]
                     /\ UNCHANGED <<issued, browserCookie>>
                ELSE /\ issued' = issued + 1
                     /\ browserCookie' = signed
                     /\ stateResponse' = [status |-> HTTP_OK, state |-> state,
                                          platform |-> platform,
                                          set_cookie |-> signed]
    /\ UNCHANGED <<now, ticks, configs, tokenGen, storageFunc, fnArgs, fnResult>>
    /\ UNCHANGED handlerVars

IssueState ==
    \E platformInput \in PlatformInputs, code_verifier \in VerifierInputs :
        issue_state_post(platformInput, code_verifier)

\* ------------------------------------------------------------- responses
NoToken == [none |-> TRUE]     \* token = "" : no application JWT

\* variant of _create_auth_response: the HTML page for every platform
CreateAuthResponseAlwaysHtml(platform, token, return_url, is_success, error_message, status_code, should_redirect) ==
    LET shape ==
            IF should_redirect
            THEN [kind |-> "redirect", status |-> HTTP_FOUND]
            ELSE [kind |-> "html",
                  status |-> IF is_success THEN HTTP_OK ELSE status_code]
    IN  [kind |-> shape.kind,
         status |-> shape.status,
         is_success |-> is_success,
         token |-> IF is_success THEN token ELSE NoToken,
         error |-> IF is_success THEN NONE ELSE error_message,
         return_url |-> IF shape.kind = "html" THEN return_url ELSE NONE,
         auth_cookie |-> token,
         state_cookie_deleted |-> FALSE]

\* OAuthProvider._create_auth_response.  `token` is the application JWT the
\* client can read from the response (page, JSON body or deep link),
\* `auth_cookie` the value of the auth_token cookie.
_create_auth_response(platform, token, return_url, is_success, error_message, status_code, should_redirect) ==
    LET shape ==
            IF should_redirect
            THEN [kind |-> "redirect", status |-> HTTP_FOUND]
            ELSE IF Lower(platform) # "web"
            THEN [kind |-> "json",
                  status |-> IF is_success THEN HTTP_OK ELSE status_code]
            ELSE [kind |-> "html",
                  status |-> IF is_success THEN HTTP_OK ELSE status_code]
    IN  [kind |-> shape.kind,
         status |-> shape.status,
         is_success |-> is_success,
         token |-> IF is_success THEN token ELSE NoToken,
         error |-> IF is_success THEN NONE ELSE error_message,
         return_url |-> IF shape.kind = "html" THEN return_url ELSE NONE,
         auth_cookie |-> token,
         state_cookie_deleted |-> FALSE]

\* ------------------------------------------------- the callback handler
Methods == {"GET", "POST"}

\* GET|POST /callback arrives; handle_callback starts with response = None
ReceiveCallback ==
    /\ pc = "idle"
    /\ \E method \in Methods, query \in QueryParams, form \in FormParams,
          cookie \in RequestCookies, should_redirect \in BOOLEAN :
         /\ method = "GET" => form = NoParams
         /\ method = "POST" => query \in PostQueryParams
         /\ request' = [method |-> method, query |-> query, form |-> form,
                        cookie |-> cookie, should_redirect |-> should_redirect]
    /\ pc' = "extract"
    /\ locals' = InitLocals
    /\ exc' = NoExc
    /\ response' = None
    /\ calls' = NoCalls
    /\ outcome' = NoOutcome
    /\ UNCHANGED envVars

\* raise: control goes to the except clause that matches the exception
Raise(e) ==
    /\ exc' = e
    /\ pc' = IF e.type = "HTTPException" THEN "except_http" ELSE "except_other"

\* variant of ExtractResult: the platform of the request, when it has one
ExtractResultPlatformFromRequest(req, t) ==
    LET params == MergedParams(req)
        code == params.code
        state == params.state
        v == _verify_state_and_get_payload(req.cookie, state, t)
    IN  IF code = NONE \/ code = "" \/ state = NONE \/ state = ""
        THEN [ok |-> FALSE,
              exc |-> HttpExc(HTTP_BAD_REQUEST, "Missing required parameters")]
        ELSE IF req.cookie = None
        THEN [ok |-> FALSE,
              exc |-> HttpExc(HTTP_BAD_REQUEST, "Missing state cookie")]
        ELSE IF ~ v.ok
        THEN [ok |-> FALSE, exc |-> v.exc]
        ELSE [ok |-> TRUE, code |-> code, state |-> state,
              platform |-> IF params.platform # NONE THEN params.platform
                           ELSE v.payload.platform,
              code_verifier |-> v.payload.code_verifier]

\* variant of ExtractResult: a code_verifier in the request is preferred to
\* the one of the state token
ExtractResultVerifierFromRequest(req, t) ==
    LET params == MergedParams(req)
        code == params.code
        state == params.state
        v == _verify_state_and_get_payload(req.cookie, state, t)
    IN  IF code = NONE \/ code = "" \/ state = NONE \/ state = ""
        THEN [ok |-> FALSE,
              exc |-> HttpExc(HTTP_BAD_REQUEST, "Missing required parameters")]
        ELSE IF req.cookie = None
        THEN [ok |-> FALSE,
              exc |-> HttpExc(HTTP_BAD_REQUEST, "Missing state cookie")]
        ELSE IF ~ v.ok
        THEN [ok |-> FALSE, exc |-> v.exc]
        ELSE IF v.payload.platform = ""
        THEN [ok |-> FALSE,
              exc |-> HttpExc(HTTP_BAD_REQUEST, "Mismatch state parameter")]
        ELSE [ok |-> TRUE, code |-> code, state |-> state,
              platform |-> v.payload.platform,
              code_verifier |-> IF "code_verifier" \in DOMAIN req.query
                                     /\ req.query.code_verifier # NONE
                                THEN req.query.code_verifier
                                ELSE v.payload.code_verifier]

\* OAuthProvider._extract_oauth_params_and_verify_state; its result is
\* unpacked into code, state, platform, code_verifier only when it returns
ExtractResult(req, t) ==
    LET params == MergedParams(req)
        code == params.code
        state == params.state
        v == _verify_state_and_get_payload(req.cookie, state, t)
    IN  IF code = NONE \/ code = "" \/ state = NONE \/ state = ""
        THEN [ok |-> FALSE,
              exc |-> HttpExc(HTTP_BAD_REQUEST, "Missing required parameters")]
        ELSE IF req.cookie = None
        THEN [ok |-> FALSE,
              exc |-> HttpExc(HTTP_BAD_REQUEST, "Missing state cookie")]
        ELSE IF ~ v.ok
        THEN [ok |-> FALSE, exc |-> v.exc]
        ELSE IF v.payload.platform = ""
        THEN [ok |-> FALSE,
              exc |-> HttpExc(HTTP_BAD_REQUEST, "Mismatch state parameter")]
        ELSE [ok |-> TRUE, code |-> code, state |-> state,
              platform |-> v.payload.platform,
              code_verifier |-> v.payload.code_verifier]

ExtractParams ==
    /\ pc = "extract"
    /\ LET r == ExtractResult(request, now)
       IN  IF r.ok
           THEN /\ locals' = [locals EXCEPT !.code = r.code, !.state = r.state,
                                            !.platform = r.platform,
                                            !.code_verifier = r.code_verifier]
                /\ pc' = "return_url"
                /\ UNCHANGED exc
           ELSE /\ Raise(r.exc)
                /\ UNCHANGED locals
    /\ UNCHANGED <<request, response, calls, outcome>>
    /\ UNCHANGED envVars

\* state_payload.get("return_url", "/")
ReturnUrlOf(state_payload) ==
    IF state_payload.return_url = NONE THEN "/" ELSE state_payload.return_url

\* handle_callback verifies the cookie a second time to read return_url
ReadReturnUrl ==
    /\ pc = "return_url"
    /\ LET v == _verify_state_and_get_payload(request.cookie, locals.state, now)
       IN  IF v.ok
           THEN /\ locals' = [locals EXCEPT !.return_url = ReturnUrlOf(v.payload)]
                /\ pc' = "load_config"
                /\ UNCHANGED exc
           ELSE /\ Raise(v.exc)
                /\ UNCHANGED locals
    /\ UNCHANGED <<request, response, calls, outcome>>
    /\ UNCHANGED envVars

\* config = config_loader(platform)
LoadConfig ==
    /\ pc = "load_config"
    /\ calls' = [calls EXCEPT !.config_loader = locals.platform]
    /\ LET r == get_platform_config(locals.platform, configs)
       IN  IF r.ok
           THEN /\ locals' = [locals EXCEPT !.config = r.config]
                /\ pc' = "exchange"
                /\ UNCHANGED exc
           ELSE /\ Raise(r.exc)
                /\ UNCHANGED locals
    /\ UNCHANGED <<request, response, outcome>>
    /\ UNCHANGED envVars

\* the provider's token endpoint, as _exchange_code_for_tokens sees it
\* what the provider says in the body of a refusal
ErrorBodies == {"invalid_grant", "invalid_client: secret sk-1 rejected"}

TokenEndpointReplies ==
    {[ok |-> TRUE, status |-> 200, id_token |-> "idt", body |-> NONE],
     [ok |-> TRUE, status |-> 200, id_token |-> NONE, body |-> NONE]}
        \cup [ok : {FALSE}, status : {401}, id_token : {NONE}, body : ErrorBodies]

\* variant of _exchange_code_for_tokens: the refusal is passed on as it came
ExchangeEchoesBody(config, reply) ==
    IF config.token_endpoint = ""
    THEN [ok |-> FALSE, exc |-> OtherExc("RuntimeError")]
    ELSE IF ~ reply.ok
    THEN [ok |-> FALSE, exc |-> HttpExc(HTTP_BAD_GATEWAY, reply.body)]
    ELSE [ok |-> TRUE, result |-> [id_token |-> reply.id_token]]

\* variant of _exchange_code_for_tokens: resp.ok is not looked at
ExchangeIgnoresStatus(config, reply) ==
    IF config.token_endpoint = ""
    THEN [ok |-> FALSE, exc |-> OtherExc("RuntimeError")]
    ELSE [ok |-> TRUE, result |-> [id_token |-> reply.id_token]]

\* _exchange_code_for_tokens (Google and Apple): the payload of an OK
\* reply, HTTPException 502 for any other reply
_exchange_code_for_tokens(config, reply) ==
    IF config.token_endpoint = ""
    THEN [ok |-> FALSE, exc |-> OtherExc("RuntimeError")]
    ELSE IF ~ reply.ok
    THEN [ok |-> FALSE,
          exc |-> HttpExc(HTTP_BAD_GATEWAY, "token endpoint error")]
    ELSE [ok |-> TRUE, result |-> [id_token |-> reply.id_token]]

\* result = await exchange_callback(code, redirect_uri, config, code_verifier)
Exchange ==
    /\ pc = "exchange"
    /\ \E reply \in TokenEndpointReplies :
         LET r == _exchange_code_for_tokens(locals.config, reply)
         IN  /\ calls' = [calls EXCEPT !.exchange = TRUE,
                                       !.endpoint_status = reply.status,
                                       !.endpoint_body = reply.body]
             /\ IF r.ok
                THEN /\ locals' = [locals EXCEPT !.result = r.result]
                     /\ pc' = "user_info"
                     /\ UNCHANGED exc
                ELSE /\ Raise(r.exc)
                     /\ UNCHANGED locals
    /\ UNCHANGED <<request, response, outcome>>
    /\ UNCHANGED envVars

Identity == [id |-> "u1", email |-> "x@y.com", name |-> "X"]
EmptyInfo == [id |-> NONE, email |-> NONE, name |-> NONE]   \* {}

\* user_info_extractor(result, config) inside its own try/except: the
\* identity of a verified id_token, {} when there is none, when its
\* verification fails or when the extractor raises
ExtractUserInfo ==
    /\ pc = "user_info"
    /\ \E verified \in BOOLEAN :
         locals' = [locals EXCEPT !.user_info =
                      IF locals.result.id_token # NONE /\ verified
                      THEN Identity ELSE EmptyInfo]
    /\ pc' = "mint"
    /\ UNCHANGED <<request, exc, response, calls, outcome>>
    /\ UNCHANGED envVars

CallArgs == 3                 \* (user_info, platform, self.provider_name)
DefaultGeneratorParams == 2   \* jwt_utils.generate_jwt_token(user_info, platform)

\* dict.get(key, '')
GetOrEmpty(v) == IF v = NONE THEN "" ELSE v

\* the token generator called with CallArgs positional arguments: the
\* injected one takes three, jwt_utils.generate_jwt_token takes two
generate_jwt_token(gen, user_info, platform) ==
    IF gen = "default" /\ CallArgs # DefaultGeneratorParams
    THEN [ok |-> FALSE, exc |-> OtherExc("TypeError")]
    ELSE [ok |-> TRUE,
          token |-> [sub |-> GetOrEmpty(user_info.id),
                     name |-> GetOrEmpty(user_info.name),
                     platform |-> platform]]

MintToken ==
    /\ pc = "mint"
    /\ LET r == generate_jwt_token(tokenGen, locals.user_info, locals.platform)
       IN  IF r.ok
           THEN /\ locals' = [locals EXCEPT !.token = r.token]
                /\ pc' = "storage"
                /\ UNCHANGED exc
           ELSE /\ Raise(r.exc)
                /\ UNCHANGED locals
    /\ UNCHANGED <<request, response, calls, outcome>>
    /\ UNCHANGED envVars

\* if self.storage_func: self.storage_func(user_info, platform, provider):
\* the call is not guarded, so what the callback raises leaves the try body
Storage ==
    /\ pc = "storage"
    /\ IF storageFunc = "none"
       THEN /\ pc' = "respond"
            /\ UNCHANGED <<exc, calls>>
       ELSE \E raises \in BOOLEAN :
                IF raises
                THEN /\ calls' = [calls EXCEPT !.storage = "raised"]
                     /\ Raise(OtherExc("StorageError"))
                ELSE /\ calls' = [calls EXCEPT !.storage = "returned"]
                     /\ pc' = "respond"
                     /\ UNCHANGED exc
    /\ UNCHANGED <<request, locals, response, outcome>>
    /\ UNCHANGED envVars

\* response = self._create_auth_response(..., is_success=True, ...)
BuildResponse ==
    /\ pc = "respond"
    /\ response' = _create_auth_response(locals.platform, locals.token,
                       locals.return_url, TRUE, NONE, HTTP_OK,
                       request.should_redirect)
    /\ pc' = "finally"
    /\ UNCHANGED <<request, locals, exc, calls, outcome>>
    /\ UNCHANGED envVars

\* return_url of the error response: from the cookie when it decodes
ErrorReturnUrl(cookie, t) ==
    IF cookie = None THEN "/"
    ELSE LET d == _decode_state_cookie(cookie, t)
         IN  IF d.ok /\ d.payload.return_url # NONE
             THEN d.payload.return_url ELSE "/"

\* variant of ExceptBody: the error response is built with the token the
\* try body had minted before it failed
ExceptBodyKeepsToken(msg, status_code) ==
    IF locals.platform = UNBOUND \/ locals.config = Unbound
    THEN /\ exc' = OtherExc("UnboundLocalError")
         /\ UNCHANGED response
    ELSE /\ response' = _create_auth_response(locals.platform,
                            IF locals.token = Unbound THEN NoToken
                            ELSE locals.token,
                            ErrorReturnUrl(request.cookie, now), FALSE, msg,
                            status_code, request.should_redirect)
         /\ exc' = NoExc

\* the body of an except clause: it reads the locals platform and config,
\* and reading a local that was never assigned raises UnboundLocalError
\* out of the clause, with no response built
ExceptBody(msg, status_code) ==
    IF locals.platform = UNBOUND \/ locals.config = Unbound
    THEN /\ exc' = OtherExc("UnboundLocalError")
         /\ UNCHANGED response
    ELSE /\ response' = _create_auth_response(locals.platform, NoToken,
                            ErrorReturnUrl(request.cookie, now), FALSE, msg,
                            status_code, request.should_redirect)
         /\ exc' = NoExc

\* except HTTPException as he
ExceptHTTP ==
    /\ pc = "except_http"
    /\ ExceptBody(exc.detail, exc.status)
    /\ pc' = "finally"
    /\ UNCHANGED <<request, locals, calls, outcome>>
    /\ UNCHANGED envVars

\* except Exception as e
ExceptOther ==
    /\ pc = "except_other"
    /\ ExceptBody("An unexpected error occurred during authentication",
                  HTTP_SERVER_ERROR)
    /\ pc' = "finally"
    /\ UNCHANGED <<request, locals, calls, outcome>>
    /\ UNCHANGED envVars

\* finally: the state cookie is deleted on the response, if there is one;
\* then the response is returned or the exception leaves handle_callback
Finally ==
    /\ pc = "finally"
    /\ response' = IF response # None
                   THEN [response EXCEPT !.state_cookie_deleted = TRUE]
                   ELSE response
    /\ outcome' = IF exc.type # NONE
                  THEN [kind |-> "raised", exc |-> exc.type]
                  ELSE [kind |-> "returned", exc |-> NONE]
    /\ pc' = "done"
    /\ UNCHANGED <<request, locals, exc, calls>>
    /\ UNCHANGED envVars

\* the framework has sent the answer; the frame of the call is gone
Complete ==
    /\ pc = "done"
    /\ pc' = "idle"
    /\ request' = NoRequest
    /\ locals' = InitLocals
    /\ exc' = NoExc
    /\ response' = None
    /\ calls' = NoCalls
    /\ outcome' = NoOutcome
    /\ UNCHANGED envVars

Next ==
    \/ Tick
    \/ Reload
    \/ IssueState
    \/ ReceiveCallback
    \/ ExtractParams
    \/ ReadReturnUrl
    \/ LoadConfig
    \/ Exchange
    \/ ExtractUserInfo
    \/ MintToken
    \/ Storage
    \/ BuildResponse
    \/ ExceptHTTP
    \/ ExceptOther
    \/ Finally
    \/ Complete

Spec == Init /\ [][Next]_vars

\* ================================================ functions on their own
\* The functions below are applied once to arguments drawn at the start;
\* the callback handler stays idle.
protocolVars == <<now, ticks, issued, browserCookie, stateResponse, configs,
                 tokenGen, storageFunc,
                 pc, request, locals, exc, response, calls, outcome>>

MaxStartTime == 1      \* latest time.time() at which a function is applied

\* extra_state_data: any dict, the claims of the token itself among its keys
ExtraKeys == {"code_verifier", "return_url", "state", "platform"}
ExtraValues == {"x", "android"}
ExtraMaps == UNION {[K -> ExtraValues] : K \in SUBSET ExtraKeys}

\* seconds between encoding a state token and decoding it
Delays == {0, StateTtl - 1, StateTtl, StateTtl + 1}

RoundTripArgs ==
    [op : {"round_trip"}, state : {"N1", "N2"}, platform : {"web", "ios"},
     extra : ExtraMaps, t0 : 0..MaxStartTime, dt : Delays]

\* _decode_state_cookie(_encode_state_cookie(state, platform, extra)), the
\* token made at t0 and decoded dt seconds later
StateTokenRoundTrip ==
    /\ fnArgs.op = "round_trip"
    /\ fnResult = NoResult
    /\ LET token == _encode_state_cookie(fnArgs.state, fnArgs.platform,
                                         fnArgs.extra, fnArgs.t0)
       IN  fnResult' = [token |-> token,
                        decoded |-> _decode_state_cookie(token,
                                        fnArgs.t0 + fnArgs.dt)]
    /\ UNCHANGED fnArgs
    /\ UNCHANGED protocolVars

\* ------------------------------------------------ the /state endpoints
Providers == {"Google", "Apple"}

\* state_cookie_name of the provider objects
state_cookie_name(provider) ==
    IF provider = "Google" THEN "g_oidc_state" ELSE "a_oidc_state"

\* OAuthProvider.create_state_response, `state` being the nonce drawn by
\* secrets.token_urlsafe
create_state_response(platform, extra, state, t) ==
    LET normalized == _normalize_platform(platform)
    IN  [state |-> state,
         platform |-> normalized,
         signed_state |-> _encode_state_cookie(state, normalized, extra, t)]

\* what FastAPI answers when a route raises HTTPException
ErrorResponse(e) ==
    [status |-> e.status, body |-> [detail |-> e.detail], set_cookie |-> {}]

\* variant of issue_state_response: the signed state goes into the body too
IssueStateReturnsSigned(provider, body, state, loaded, t) ==
    LET state_data == create_state_response(body.platform, << >>, state, t)
    IN  [status |-> HTTP_OK,
         body |-> state_data,
         set_cookie |-> {[key |-> state_cookie_name(provider),
                          value |-> state_data.signed_state,
                          httponly |-> TRUE, secure |-> TRUE,
                          samesite |-> "lax", path |-> "/"]}]

\* the whole answer of POST /auth/google/state and POST /auth/apple/state:
\* status, JSON body and Set-Cookie headers.  Apple normalizes the platform
\* before it tests it, Google after.
issue_state_response(provider, body, state, loaded, t) ==
    LET platform == IF provider = "Apple"
                    THEN _normalize_platform(body.platform)
                    ELSE body.platform
        normalized == _normalize_platform(platform)
        cfg == get_platform_config(normalized, loaded)
        extra == IF body.code_verifier = NONE \/ body.code_verifier = ""
                 THEN << >>
                 ELSE [code_verifier |-> body.code_verifier]
        state_data == create_state_response(normalized, extra, state, t)
    IN  IF platform = NONE \/ platform = ""
        THEN ErrorResponse(HttpExc(HTTP_BAD_REQUEST,
                                   "Missing required parameter: platform"))
        ELSE IF ~ cfg.ok
        THEN ErrorResponse(cfg.exc)
        ELSE [status |-> HTTP_OK,
              body |-> [state |-> state_data.state,
                        platform |-> state_data.platform],
              set_cookie |-> {[key |-> state_cookie_name(provider),
                               value |-> state_data.signed_state,
                               httponly |-> TRUE, secure |-> TRUE,
                               samesite |-> "lax", path |-> "/"]}]

StateBodies == [platform : {NONE, "", "web", "WEB", "iOS", "android"},
                code_verifier : {NONE, "", "cv1"}]

StateArgs ==
    [op : {"state"}, provider : Providers, body : StateBodies,
     state : {"N1", "N2"}, loaded : ConfigDirs, t0 : 0..MaxStartTime]

IssueStateAlone ==
    /\ fnArgs.op = "state"
    /\ fnResult = NoResult
    /\ fnResult' = issue_state_response(fnArgs.provider, fnArgs.body,
                        fnArgs.state, fnArgs.loaded, fnArgs.t0)
    /\ UNCHANGED fnArgs
    /\ UNCHANGED protocolVars

\* ------------------------------------------- platform normalization
NormalizeInputs ==
    {NONE, "", "web", "WEB", "iOS", "ios", "AnDrOiD", "Android", "android"}

NormalizeArgs == [op : {"normalize"}, platform : NormalizeInputs]

NormalizePlatformAlone ==
    /\ fnArgs.op = "normalize"
    /\ fnResult = NoResult
    /\ fnResult' = [value |-> _normalize_platform(fnArgs.platform)]
    /\ UNCHANGED fnArgs
    /\ UNCHANGED protocolVars

CreateStateArgs ==
    [op : {"create_state"}, platform : NormalizeInputs, state : {"N1", "N2"},
     t0 : 0..MaxStartTime]

CreateStateAlone ==
    /\ fnArgs.op = "create_state"
    /\ fnResult = NoResult
    /\ fnResult' = create_state_response(fnArgs.platform, << >>, fnArgs.state,
                                         fnArgs.t0)
    /\ UNCHANGED fnArgs
    /\ UNCHANGED protocolVars

\* --------------------------------------------- Apple's client secret
AppleSecretTtl == 1800     \* "exp": now + 1800

\* `not value` of Python for the strings of a config
Falsy(v) == v = NONE \/ v = ""

\* variant of _build_apple_client_secret: a secret that lives one hour
BuildAppleSecretOneHour(client_cfg, key_readable, t) ==
    IF Falsy(client_cfg.client_id) \/ Falsy(client_cfg.team_id)
         \/ Falsy(client_cfg.key_id) \/ Falsy(client_cfg.auth_key_path)
    THEN [ok |-> FALSE, exc |-> OtherExc("RuntimeError")]
    ELSE IF ~ key_readable
    THEN [ok |-> FALSE,
          exc |-> HttpExc(HTTP_SERVER_ERROR,
                          "Failed to load Apple authentication key")]
    ELSE [ok |-> TRUE,
          jwt |-> [headers |-> [kid |-> client_cfg.key_id, alg |-> "ES256"],
                   claims |-> [iss |-> client_cfg.team_id, iat |-> t,
                               exp |-> t + 2 * AppleSecretTtl,
                               aud |-> "https://appleid.apple.com",
                               sub |-> client_cfg.client_id],
                   key |-> client_cfg.auth_key_path]]

\* _build_apple_client_secret at time t; key_readable: whether
\* _load_apple_private_key can read the file at auth_key_path
_build_apple_client_secret(client_cfg, key_readable, t) ==
    IF Falsy(client_cfg.client_id) \/ Falsy(client_cfg.team_id)
         \/ Falsy(client_cfg.key_id) \/ Falsy(client_cfg.auth_key_path)
    THEN [ok |-> FALSE, exc |-> OtherExc("RuntimeError")]
    ELSE IF ~ key_readable
    THEN [ok |-> FALSE,
          exc |-> HttpExc(HTTP_SERVER_ERROR,
                          "Failed to load Apple authentication key")]
    ELSE [ok |-> TRUE,
          jwt |-> [headers |-> [kid |-> client_cfg.key_id, alg |-> "ES256"],
                   claims |-> [iss |-> client_cfg.team_id, iat |-> t,
                               exp |-> t + AppleSecretTtl,
                               aud |-> "https://appleid.apple.com",
                               sub |-> client_cfg.client_id],
                   key |-> client_cfg.auth_key_path]]

AppleConfigs ==
    [client_id : {NONE, "com.app.web", "com.app.ios"},
     team_id : {NONE, "", "T1"},
     key_id : {"", "K1", "K2"},
     auth_key_path : {NONE, "/keys/AuthKey.p8"}]

\* time.time() of the calls; the last one is the clock of the unit test
AppleTimes == (0..MaxStartTime) \cup {1234567890}

AppleSecretArgs ==
    [op : {"apple_secret"}, client_cfg : AppleConfigs, key_readable : BOOLEAN,
     now : AppleTimes]

BuildAppleClientSecret ==
    /\ fnArgs.op = "apple_secret"
    /\ fnResult = NoResult
    /\ fnResult' = _build_apple_client_secret(fnArgs.client_cfg,
                        fnArgs.key_readable, fnArgs.now)
    /\ UNCHANGED fnArgs
    /\ UNCHANGED protocolVars

\* ------------------------------------------------- the auth cookie
JwtExpireHoursInCode == 24     \* jwt_expire_hours = 24 of both generators
SecondsPerHour == 3600

\* the JWT_EXPIRE_HOURS setting of a deployment
JwtExpireHoursSettings == {1, 24, 48}

\* the claims of the application JWT, as jwt_utils.generate_jwt_token and
\* auth_util.generate_jwt_token fill them at time t: iat and exp come from
\* two readings of the clock, which `skew` whole seconds lie between
token_payload(user_info, platform, t, skew) ==
    [sub |-> GetOrEmpty(user_info.id),
     name |-> GetOrEmpty(user_info.name),
     platform |-> platform,
     iat |-> t,
     exp |-> t + skew + JwtExpireHoursInCode * SecondsPerHour]

\* auth_util.generate_auth_cookies under the setting jwt_expire_hours
generate_auth_cookies(token, jwt_expire_hours) ==
    [key |-> "auth_token", value |-> token, httponly |-> TRUE,
     secure |-> TRUE, samesite |-> "lax",
     max_age |-> jwt_expire_hours * SecondsPerHour, path |-> "/"]

\* the end of _create_auth_response: the cookies it sets for `token`, with
\* cookie_generator_func ("generate_auth_cookies") or without it ("none")
set_auth_cookie(token, cookie_generator, jwt_expire_hours) ==
    IF token = NoToken
    THEN {}
    ELSE IF cookie_generator = "generate_auth_cookies"
    THEN {generate_auth_cookies(token, jwt_expire_hours)}
    ELSE {[key |-> "auth_token", value |-> token, httponly |-> TRUE,
           secure |-> TRUE, samesite |-> "lax",
           max_age |-> jwt_expire_hours * SecondsPerHour, path |-> "/"]}

AuthCookieArgs ==
    [op : {"auth_cookie"}, user_info : {Identity, EmptyInfo},
     platform : {"web", "android"},
     cookie_generator : {"none", "generate_auth_cookies"},
     jwt_expire_hours : JwtExpireHoursSettings,
     minted : BOOLEAN, now : 0..MaxStartTime, skew : {0, 1}]

\* a response is built for a freshly minted token (success) or for
\* token = "" (failure)
SetAuthCookieAlone ==
    /\ fnArgs.op = "auth_cookie"
    /\ fnResult = NoResult
    /\ LET token == IF fnArgs.minted
                    THEN token_payload(fnArgs.user_info, fnArgs.platform,
                                       fnArgs.now, fnArgs.skew)
                    ELSE NoToken
       IN  fnResult' = [set_cookie |->
                           set_auth_cookie(token, fnArgs.cookie_generator,
                                           fnArgs.jwt_expire_hours)]
    /\ UNCHANGED fnArgs
    /\ UNCHANGED protocolVars

\* ------------------------------------------------ the /exchange routes
\* `await value` on what a plain (not async) function returned: a dict is
\* not awaitable, so a value that did come back becomes a TypeError
Await(r) ==
    IF r.ok THEN [ok |-> FALSE, exc |-> OtherExc("TypeError")] ELSE r

\* POST /auth/google/exchange and POST /auth/apple/exchange.  The check of
\* the parameters is outside the try; everything raised inside it, by the
\* config loader, by _exchange_code_for_tokens or by the await of its
\* result, is answered 400 "Token exchange failed".
exchange_from_client(provider, body, loaded, reply) ==
    LET platform == _normalize_platform(body.platform)
        cfg == get_platform_config(platform, loaded)
        tokens == Await(_exchange_code_for_tokens(cfg.config, reply))
    IN  IF Falsy(body.code) \/ Falsy(body.redirect_uri) \/ Falsy(platform)
        THEN ErrorResponse(HttpExc(HTTP_BAD_REQUEST,
                 "Missing required parameters: code, redirect_uri, or platform"))
        ELSE IF ~ cfg.ok
        THEN ErrorResponse(HttpExc(HTTP_BAD_REQUEST, "Token exchange failed"))
        ELSE IF ~ tokens.ok
        THEN ErrorResponse(HttpExc(HTTP_BAD_REQUEST, "Token exchange failed"))
        ELSE [status |-> HTTP_OK, body |-> tokens.result, set_cookie |-> {}]

ExchangeBodies ==
    [code : {NONE, "abc"}, redirect_uri : {NONE, "", "https://app/cb"},
     platform : {NONE, "web", "iOS", "android"}, code_verifier : {NONE, "cv1"}]

ExchangeArgs ==
    [op : {"exchange"}, provider : Providers, body : ExchangeBodies,
     loaded : ConfigDirs, reply : TokenEndpointReplies]

ExchangeFromClient ==
    /\ fnArgs.op = "exchange"
    /\ fnResult = NoResult
    /\ fnResult' = exchange_from_client(fnArgs.provider, fnArgs.body,
                        fnArgs.loaded, fnArgs.reply)
    /\ UNCHANGED fnArgs
    /\ UNCHANGED protocolVars

\* ------------------------------------------------------- the routers
\* the routes of a provider's router (prefix /auth/google or /auth/apple),
\* one per decorator; both modules register the same four
Routes ==
    {[method |-> "GET", path |-> "/config", handler |-> "get_client_config"],
     [method |-> "POST", path |-> "/state", handler |-> "issue_state_post"],
     [method |-> "GET", path |-> "/callback", handler |-> "callback"],
     [method |-> "POST", path |-> "/exchange", handler |-> "exchange_from_client"]}

\* the router's dispatch: the handler registered for the method and path;
\* a path registered for other methods only, or not at all, is refused by
\* the framework and no handler runs
Dispatch(provider, method, path) ==
    IF \E r \in Routes : r.method = method /\ r.path = path
    THEN [routed |-> TRUE,
          handler |-> (CHOOSE r \in Routes :
                          r.method = method /\ r.path = path).handler]
    ELSE IF \E r \in Routes : r.path = path
    THEN [routed |-> FALSE, handler |-> "method not allowed"]
    ELSE [routed |-> FALSE, handler |-> "not found"]

RouteArgs ==
    [op : {"route"}, provider : Providers, method : Methods,
     path : {"/config", "/state", "/callback", "/exchange", "/logout"}]

RouteRequest ==
    /\ fnArgs.op = "route"
    /\ fnResult = NoResult
    /\ fnResult' = Dispatch(fnArgs.provider, fnArgs.method, fnArgs.path)
    /\ UNCHANGED fnArgs
    /\ UNCHANGED protocolVars

\* ------------------------------------------------- AuthConfigManager
\* File names, provider names and platform names of the config manager are
\* sequences of characters, so that lower(), endswith(), slicing and split()
\* act on them as they do on a Python str.
NoName == <<NONE>>      \* Python None in a slot that holds such a string

\* str.lower() on one character of the model's alphabet
LowerChar(c) ==
    CASE c = "G" -> "g"
      [] c = "W" -> "w"
      [] c = "E" -> "e"
      [] c = "N" -> "n"
      [] c = "V" -> "v"
      [] c = "X" -> "x"
      [] OTHER -> c

lower(s) == [i \in 1..Len(s) |-> LowerChar(s[i])]

endswith(s, suffix) ==
    /\ Len(s) >= Len(suffix)
    /\ SubSeq(s, Len(s) - Len(suffix) + 1, Len(s)) = suffix

DotEnv == <<".", "e", "n", "v">>
DotEnvExample == <<".", "e", "n", "v", ".", "e", "x", "a", "m", "p", "l", "e">>
EnvLen == 4             \* base_name[:-4]
EnvExampleLen == 12     \* base_name[:-12]

\* s[:-n]
DropLast(s, n) == SubSeq(s, 1, Len(s) - n)

\* s.split('_', 1)
SplitOnce(s) ==
    IF \A i \in 1..Len(s) : s[i] # "_"
    THEN <<s>>
    ELSE LET i == CHOOSE k \in 1..Len(s) :
                      s[k] = "_" /\ \A j \in 1..(k - 1) : s[j] # "_"
         IN  <<SubSeq(s, 1, i - 1), SubSeq(s, i + 1, Len(s))>>

\* variant of _parse_config_filename: the name is split at its last underscore
ParseFilenameLastUnderscore(filename) ==
    LET filename_lower == lower(filename)
        base_name == IF endswith(filename_lower, DotEnvExample)
                     THEN DropLast(filename, EnvExampleLen)
                     ELSE DropLast(filename, EnvLen)
        cut == IF \A i \in 1..Len(base_name) : base_name[i] # "_"
               THEN 0
               ELSE CHOOSE k \in 1..Len(base_name) :
                        /\ base_name[k] = "_"
                        /\ \A j \in (k + 1)..Len(base_name) : base_name[j] # "_"
        parts == IF cut = 0
                 THEN <<base_name>>
                 ELSE <<SubSeq(base_name, 1, cut - 1),
                        SubSeq(base_name, cut + 1, Len(base_name))>>
    IN  IF ~ (endswith(filename_lower, DotEnv)
                \/ endswith(filename_lower, DotEnvExample))
        THEN <<NoName, NoName>>
        ELSE IF Len(parts) # 2
        THEN <<NoName, NoName>>
        ELSE IF lower(parts[1]) = << >> \/ lower(parts[2]) = << >>
        THEN <<NoName, NoName>>
        ELSE <<lower(parts[1]), lower(parts[2])>>

\* AuthConfigManager._parse_config_filename
_parse_config_filename(filename) ==
    LET filename_lower == lower(filename)
        base_name == IF endswith(filename_lower, DotEnvExample)
                     THEN DropLast(filename, EnvExampleLen)
                     ELSE DropLast(filename, EnvLen)
        parts == SplitOnce(base_name)
    IN  IF ~ (endswith(filename_lower, DotEnv)
                \/ endswith(filename_lower, DotEnvExample))
        THEN <<NoName, NoName>>
        ELSE IF Len(parts) # 2
        THEN <<NoName, NoName>>
        ELSE IF lower(parts[1]) = << >> \/ lower(parts[2]) = << >>
        THEN <<NoName, NoName>>
        ELSE <<lower(parts[1]), lower(parts[2])>>

MaxStemLen == 4        \* longest file name before its extension

\* the names of up to n characters over g, W and the underscore
RECURSIVE Stems(_)
Stems(n) ==
    IF n = 0 THEN {<< >>}
    ELSE Stems(n - 1)
           \cup {Append(s, c) : s \in {t \in Stems(n - 1) : Len(t) = n - 1},
                                c \in {"g", "W", "_"}}

\* file names: such a name followed by one of nine endings
ParseArgs ==
    [op : {"parse_filename"},
     filename :
        {stem \o ext :
            stem \in Stems(MaxStemLen),
            ext \in {<< >>, DotEnv, DotEnvExample,
                     <<".", "E", "N", "V">>,
                     <<".", "e", "N", "v", ".", "E", "X", "a", "m", "p", "l", "e">>,
                     <<".", "t", "x", "t">>, <<"e", "n", "v">>,
                     <<".", "e", "n", "v", ".", "e", "n", "v">>,
                     <<".", "e", "n", "v", ".", "b", "a", "k">>}}]

ParseConfigFilename ==
    /\ fnArgs.op = "parse_filename"
    /\ fnResult = NoResult
    /\ fnResult' = [pair |-> _parse_config_filename(fnArgs.filename)]
    /\ UNCHANGED fnArgs
    /\ UNCHANGED protocolVars

\* ------------------------------------- AuthConfigManager: the directory
\* a line of an env file, as _load_env_file tells lines apart: blank,
\* comment, key=value, or anything else (no "=" in it)
Assign(key, value) == [kind |-> "assign", key |-> key, value |-> value]
Line(kind) == [kind |-> kind, key |-> "", value |-> ""]

\* AuthConfigManager._load_env_file: the dict of the key=value lines; a line
\* without "=" cannot be unpacked into (key, value) and raises ValueError
RECURSIVE _load_env_file(_, _)
_load_env_file(lines, env_vars) ==
    IF lines = << >>
    THEN [ok |-> TRUE, env_vars |-> env_vars]
    ELSE LET line == Head(lines)
         IN  CASE line.kind \in {"blank", "comment"} ->
                      _load_env_file(Tail(lines), env_vars)
               [] line.kind = "assign" ->
                      _load_env_file(Tail(lines),
                          (line.key :> line.value) @@ env_vars)
               [] OTHER -> [ok |-> FALSE, env_vars |-> env_vars]

\* dict.get(key, default)
EnvGet(env_vars, key, default) ==
    IF key \in DOMAIN env_vars THEN env_vars[key] ELSE default

\* AuthConfigManager._load_config: the file's config is stored under
\* (provider, platform), replacing what was there; an empty file stores
\* nothing; a file that cannot be read raises
_load_config(file, provider, platform, _configs) ==
    LET loaded == _load_env_file(file.lines, << >>)
        config == [provider |-> provider, platform |-> platform,
                   client_id |-> EnvGet(loaded.env_vars, "client_id", "")]
    IN  IF ~ loaded.ok
        THEN [ok |-> FALSE, _configs |-> _configs]
        ELSE IF DOMAIN loaded.env_vars = {}
        THEN [ok |-> TRUE, _configs |-> _configs]
        ELSE [ok |-> TRUE,
              _configs |-> (<<provider, platform>> :> config) @@ _configs]

\* Path.glob('*.env*'): the names that hold ".env", letter case as written
Glob(name) ==
    \E i \in 1..Len(name) :
        /\ i + Len(DotEnv) - 1 <= Len(name)
        /\ SubSeq(name, i, i + Len(DotEnv) - 1) = DotEnv

\* the orders in which glob may yield the files of a directory
GlobOrders(files) ==
    LET hits == {f \in files : Glob(f.name)}
    IN  {order \in [1..Cardinality(hits) -> hits] :
            \A i, j \in 1..Cardinality(hits) : order[i] = order[j] => i = j}

\* AuthConfigManager._load_all_configs over the files in glob's order: the
\* first file that raises ends the loop with what was loaded before it
RECURSIVE _load_all_configs(_, _)
_load_all_configs(order, _configs) ==
    IF order = << >>
    THEN [raised |-> NONE, _configs |-> _configs]
    ELSE LET pair == _parse_config_filename(Head(order).name)
             step == _load_config(Head(order), pair[1], pair[2], _configs)
         IN  IF pair = <<NoName, NoName>>
             THEN _load_all_configs(Tail(order), _configs)
             ELSE IF ~ step.ok
             THEN [raised |-> "ValueError", _configs |-> _configs]
             ELSE _load_all_configs(Tail(order), step._configs)

\* variant of get_auth_config: a missing platform falls back to any
\* config of the provider
GetAuthConfigWithDefault(_configs, provider, platform) ==
    LET key == <<lower(provider), lower(platform)>>
        others == {k \in DOMAIN _configs : k[1] = lower(provider)}
    IN  IF key \in DOMAIN _configs
        THEN [ok |-> TRUE, config |-> _configs[key], exc |-> NONE]
        ELSE IF others # {}
        THEN [ok |-> TRUE, config |-> _configs[CHOOSE k \in others : TRUE],
              exc |-> NONE]
        ELSE [ok |-> FALSE, config |-> None, exc |-> "KeyError"]

\* AuthConfigManager.get_auth_config
manager_get_auth_config(_configs, provider, platform) ==
    LET key == <<lower(provider), lower(platform)>>
    IN  IF key \in DOMAIN _configs
        THEN [ok |-> TRUE, config |-> _configs[key], exc |-> NONE]
        ELSE [ok |-> FALSE, config |-> None, exc |-> "KeyError"]

MaxFiles == 2          \* most files in the config directory at a reload

\* the files a config directory can hold: g_w.env, G_W.env.example,
\* a_i.env, g_i.ENV and gw.env, each with a client_id, with a client_id
\* among comments, with comments only, or with a line that has no "="
ConfigFiles ==
    [name : {<<"g", "_", "w">> \o DotEnv,
             <<"G", "_", "W">> \o DotEnvExample,
             <<"a", "_", "i">> \o DotEnv,
             <<"g", "_", "i", ".", "E", "N", "V">>,
             <<"g", "w">> \o DotEnv},
     lines : {<<Assign("client_id", "id-1")>>,
              <<Line("comment"), Assign("client_id", "id-2"), Line("blank")>>,
              <<Line("comment"), Line("blank")>>,
              <<Line("bare")>>}]

\* the directories of at most n files; a directory holds each file name at
\* most once
RECURSIVE Directories(_)
Directories(n) ==
    IF n = 0 THEN {{}}
    ELSE Directories(n - 1)
           \cup UNION {{d \cup {f} : f \in {g \in ConfigFiles :
                                                \A e \in d : e.name # g.name}} :
                           d \in Directories(n - 1)}

DirsAtInit ==
    {{}, {[name |-> <<"g", "_", "w">> \o DotEnv,
           lines |-> <<Assign("client_id", "id-1")>>]},
     {[name |-> <<"g", "_", "w">> \o DotEnv,
       lines |-> <<Assign("client_id", "id-1")>>],
      [name |-> <<"a", "_", "i">> \o DotEnv,
       lines |-> <<Assign("client_id", "id-2")>>]}}

ManagerArgs ==
    [op : {"manager"}, atInit : DirsAtInit, atReload : Directories(MaxFiles)]


NoLookup == [provider |-> NoName, platform |-> NoName,
             result |-> [ok |-> FALSE, config |-> None, exc |-> NONE]]

\* AuthConfigManager(base_dir)
ConstructManager ==
    /\ fnArgs.op = "manager"
    /\ fnResult = NoResult
    /\ \E order \in GlobOrders(fnArgs.atInit) :
          LET r == _load_all_configs(order, << >>)
          IN  /\ r.raised = NONE
              /\ fnResult' = [phase |-> "constructed", _configs |-> r._configs,
                              raised |-> NONE, lookup |-> NoLookup]
    /\ UNCHANGED fnArgs
    /\ UNCHANGED protocolVars

\* AuthConfigManager.reload, the directory having changed since construction
ReloadManager ==
    /\ fnArgs.op = "manager"
    /\ fnResult # NoResult
    /\ fnResult.phase = "constructed"
    /\ \E order \in GlobOrders(fnArgs.atReload) :
          LET r == _load_all_configs(order, << >>)
          IN  fnResult' = [phase |-> "reloaded", _configs |-> r._configs,
                           raised |-> r.raised, lookup |-> NoLookup]
    /\ UNCHANGED fnArgs
    /\ UNCHANGED protocolVars

\* manager.get_auth_config(provider, platform)
GetAuthConfig ==
    /\ fnArgs.op = "manager"
    /\ fnResult # NoResult
    /\ fnResult.lookup = NoLookup
    /\ \E provider, platform \in {<<"g">>, <<"G">>, <<"a">>, <<"w">>, <<"W">>, <<"i">>} :
          fnResult' = [fnResult EXCEPT !.lookup =
                          [provider |-> provider, platform |-> platform,
                           result |-> manager_get_auth_config(
                                          fnResult._configs, provider, platform)]]
    /\ UNCHANGED fnArgs
    /\ UNCHANGED protocolVars

\* ------------------------------------------- the provider config loaders
\* the module's _auth_config: None until init_auth_config, then a manager
NoManager == [exists |-> FALSE, _configs |-> << >>]

\* config.get_auth_config (module level): RuntimeError without a manager;
\* a platform of None has no lower() and raises AttributeError
get_auth_config(manager, provider, platform) ==
    IF ~ manager.exists
    THEN [ok |-> FALSE, config |-> None, exc |-> "RuntimeError"]
    ELSE IF platform = NoName
    THEN [ok |-> FALSE, config |-> None, exc |-> "AttributeError"]
    ELSE manager_get_auth_config(manager._configs, provider, platform)

\* the provider names "google" and "apple", written as the files of the
\* model write them
ProviderKey(provider) == IF provider = "Google" THEN <<"g">> ELSE <<"a">>

\* f"{provider} authentication is not properly configured for platform '{platform}'"
NotConfiguredDetail(provider, platform) ==
    <<provider, " authentication is ", "not properly configured",
      " for platform '">> \o platform \o <<"'">>

\* variant of get_platform_client_config: the error of get_auth_config is
\* passed on as it came
LoaderPassesErrorOn(platform, include_secrets, manager) ==
    LET r == get_auth_config(manager, ProviderKey("Apple"), platform)
    IN  IF r.ok
        THEN [ok |-> TRUE,
              config |-> [platform |-> platform, client_id |-> r.config.client_id,
                          secrets |-> include_secrets]]
        ELSE [ok |-> FALSE, exc |-> OtherExc(r.exc)]

\* apple_stateless.get_platform_client_config
get_platform_client_config(platform, include_secrets, manager) ==
    LET r == get_auth_config(manager, ProviderKey("Apple"), platform)
    IN  IF r.ok
        THEN [ok |-> TRUE,
              config |-> [platform |-> platform, client_id |-> r.config.client_id,
                          secrets |-> include_secrets]]
        ELSE [ok |-> FALSE,
              exc |-> HttpExc(HTTP_SERVER_ERROR,
                              NotConfiguredDetail("Apple", platform))]

\* google_stateless.get_platform_config
google_get_platform_config(platform, include_secrets, manager) ==
    LET r == get_auth_config(manager, ProviderKey("Google"), platform)
    IN  IF r.ok
        THEN [ok |-> TRUE,
              config |-> [platform |-> platform, client_id |-> r.config.client_id,
                          secrets |-> include_secrets]]
        ELSE [ok |-> FALSE,
              exc |-> HttpExc(HTTP_SERVER_ERROR,
                              NotConfiguredDetail("Google", platform))]

LoaderArgs ==
    [op : {"loader"}, provider : Providers, platform : {NoName, <<"w">>, <<"W">>, <<"i">>},
     include_secrets : BOOLEAN,
     manager :
        {NoManager}
            \cup {[exists |-> TRUE,
                   _configs |-> _load_all_configs(order, << >>)._configs] :
                      order \in UNION {GlobOrders(d) : d \in DirsAtInit}}]

LoadProviderConfig ==
    /\ fnArgs.op = "loader"
    /\ fnResult = NoResult
    /\ fnResult' = IF fnArgs.provider = "Google"
                   THEN google_get_platform_config(fnArgs.platform,
                            fnArgs.include_secrets, fnArgs.manager)
                   ELSE get_platform_client_config(fnArgs.platform,
                            fnArgs.include_secrets, fnArgs.manager)
    /\ UNCHANGED fnArgs
    /\ UNCHANGED protocolVars

\* ----------------------------- handle_callback: the default extraction
\* the first lines of handle_callback's try body when no param_extractor
\* is given: what it will hand to config_loader, to the exchange callback
\* and to the response, or the exception that ends the try body
extraction_with_return_url(r, v) ==
    IF ~ v.ok
    THEN [ok |-> FALSE, exc |-> v.exc]
    ELSE [ok |-> TRUE, code |-> r.code, state |-> r.state,
          platform |-> r.platform, code_verifier |-> r.code_verifier,
          return_url |-> ReturnUrlOf(v.payload)]

extraction_unpacked(req, t, r) ==
    IF ~ r.ok
    THEN [ok |-> FALSE, exc |-> r.exc]
    ELSE extraction_with_return_url(r,
             _verify_state_and_get_payload(req.cookie, r.state, t))

default_extraction(req, t) == extraction_unpacked(req, t, ExtractResult(req, t))

\* the query string or form of a callback that also carries parameters
\* named like the claims of the state token
NoCallbackParams == [code |-> NONE, state |-> NONE, platform |-> NONE,
                     code_verifier |-> NONE, return_url |-> NONE]

\* GET and POST callbacks whose query string and form carry a
\* code_verifier and a return_url of their own, with no cookie or with the
\* state token of a session started with or without the two claims
CallbackParamsArgs ==
    [op : {"callback_params"},
     req : {r \in [method : Methods,
                   query : [code : {"abc"}, state : {"N1", "N2"},
                            platform : {NONE},
                            code_verifier : {NONE, "cv-request"},
                            return_url : {NONE, "/evil"}],
                   form : {NoCallbackParams,
                           [code |-> "abc", state |-> "N1", platform |-> NONE,
                            code_verifier |-> "cv-form",
                            return_url |-> "/evil-form"]},
                   cookie : {None}
                       \cup {_encode_state_cookie("N1", "web", extra, 0) :
                                extra \in {<< >>, [code_verifier |-> "cv1"],
                                           [return_url |-> "/home"],
                                           [code_verifier |-> "cv1",
                                            return_url |-> "/home"]}},
                   should_redirect : {FALSE}] :
               r.method = "GET" => r.form = NoCallbackParams},
     t : {0, StateTtl + 1}]

DefaultExtraction ==
    /\ fnArgs.op = "callback_params"
    /\ fnResult = NoResult
    /\ fnResult' = default_extraction(fnArgs.req, fnArgs.t)
    /\ UNCHANGED fnArgs
    /\ UNCHANGED protocolVars

\* --------------------------------------------- concurrent callbacks
\* Two callbacks are in flight on the event loop at once.  A handler runs
\* from one await to the next without interruption, so a callback is two
\* steps: up to `await exchange_callback(...)`, and from there to the
\* response.  The steps take the state all callbacks share (the provider
\* object and the loaded configs) and give it back.
SharedState(gen, loaded) ==
    [provider |-> [provider_name |-> ProviderName, state_secret |-> Secret,
                   token_generator_func |-> gen, storage_func |-> "none"],
     configs |-> loaded]

NewCallback(req, reply) ==
    [pc |-> "extract", req |-> req, reply |-> reply, platform |-> UNBOUND,
     code_verifier |-> UNBOUND, return_url |-> UNBOUND, config |-> Unbound,
     response |-> None, raised |-> NONE]

\* the except clauses and the finally clause of handle_callback
callback_except(h, msg, status_code, t) ==
    IF h.platform = UNBOUND \/ h.config = Unbound
    THEN [h EXCEPT !.pc = "done", !.raised = "UnboundLocalError"]
    ELSE [h EXCEPT !.pc = "done",
              !.response =
                  [_create_auth_response(h.platform, NoToken,
                       ErrorReturnUrl(h.req.cookie, t), FALSE, msg,
                       status_code, h.req.should_redirect)
                   EXCEPT !.state_cookie_deleted = TRUE]]

\* variant of callback_extract_and_load: the handler takes the config it
\* loaded out of the shared configs
ExtractAndLoadConsumesConfig(h, shared, t) ==
    LET r == default_extraction(h.req, t)
        cfg == get_platform_config(r.platform, shared.configs)
    IN  IF ~ r.ok
        THEN [h |-> callback_except(h, r.exc.detail, r.exc.status, t),
              shared |-> shared]
        ELSE IF ~ cfg.ok
        THEN [h |-> callback_except([h EXCEPT !.platform = r.platform],
                                    cfg.exc.detail, cfg.exc.status, t),
              shared |-> shared]
        ELSE [h |-> [h EXCEPT !.pc = "exchange", !.platform = r.platform,
                              !.code_verifier = r.code_verifier,
                              !.return_url = r.return_url,
                              !.config = cfg.config],
              shared |-> [shared EXCEPT !.configs = @ \ {Lower(r.platform)}]]

\* variant of callback_extract_and_load: the provider remembers the nonces
\* it has accepted and refuses a nonce it has seen
ExtractAndLoadOnce(h, shared, t) ==
    LET r == default_extraction(h.req, t)
        cfg == get_platform_config(r.platform, shared.configs)
        used == IF "used" \in DOMAIN shared THEN shared.used ELSE {}
    IN  IF ~ r.ok
        THEN [h |-> callback_except(h, r.exc.detail, r.exc.status, t),
              shared |-> shared]
        ELSE IF r.state \in used
        THEN [h |-> callback_except(h, "Invalid state parameter",
                                    HTTP_BAD_REQUEST, t),
              shared |-> shared]
        ELSE IF ~ cfg.ok
        THEN [h |-> callback_except([h EXCEPT !.platform = r.platform],
                                    cfg.exc.detail, cfg.exc.status, t),
              shared |-> [provider |-> shared.provider,
                          configs |-> shared.configs,
                          used |-> used \cup {r.state}]]
        ELSE [h |-> [h EXCEPT !.pc = "exchange", !.platform = r.platform,
                              !.code_verifier = r.code_verifier,
                              !.return_url = r.return_url,
                              !.config = cfg.config],
              shared |-> [provider |-> shared.provider,
                          configs |-> shared.configs,
                          used |-> used \cup {r.state}]]

\* config = config_loader(platform) has returned or raised
callback_after_config(h, shared, t, r, cfg) ==
    IF ~ cfg.ok
    THEN [h |-> callback_except([h EXCEPT !.platform = r.platform],
                                cfg.exc.detail, cfg.exc.status, t),
          shared |-> shared]
    ELSE [h |-> [h EXCEPT !.pc = "exchange", !.platform = r.platform,
                          !.code_verifier = r.code_verifier,
                          !.return_url = r.return_url,
                          !.config = cfg.config],
          shared |-> shared]

\* the parameters have been extracted, or the extraction has raised
callback_after_extraction(h, shared, t, r) ==
    IF ~ r.ok
    THEN [h |-> callback_except(h, r.exc.detail, r.exc.status, t),
          shared |-> shared]
    ELSE callback_after_config(h, shared, t, r,
             get_platform_config(r.platform, shared.configs))

\* handle_callback from its start to the await of the exchange callback
callback_extract_and_load(h, shared, t) ==
    callback_after_extraction(h, shared, t, default_extraction(h.req, t))

\* the token generator has returned or raised
callback_after_mint(h, shared, t, tok) ==
    IF ~ tok.ok
    THEN [h |-> callback_except(h,
                    "An unexpected error occurred during authentication",
                    HTTP_SERVER_ERROR, t),
          shared |-> shared]
    ELSE [h |-> [h EXCEPT !.pc = "done",
                    !.response =
                        [_create_auth_response(h.platform, tok.token,
                             h.return_url, TRUE, NONE, HTTP_OK,
                             h.req.should_redirect)
                         EXCEPT !.state_cookie_deleted = TRUE]],
          shared |-> shared]

\* the exchange callback has returned or raised
callback_after_exchange(h, shared, t, r) ==
    IF ~ r.ok
    THEN [h |-> IF r.exc.type = "HTTPException"
                THEN callback_except(h, r.exc.detail, r.exc.status, t)
                ELSE callback_except(h,
                         "An unexpected error occurred during authentication",
                         HTTP_SERVER_ERROR, t),
          shared |-> shared]
    ELSE callback_after_mint(h, shared, t,
             generate_jwt_token(shared.provider.token_generator_func,
                 IF r.result.id_token # NONE THEN Identity ELSE EmptyInfo,
                 h.platform))

\* handle_callback from the exchange to its response
callback_exchange_and_respond(h, shared, t) ==
    callback_after_exchange(h, shared, t,
        _exchange_code_for_tokens(h.config, h.reply))

callback_step(h, shared, t) ==
    IF h.pc = "extract" THEN callback_extract_and_load(h, shared, t)
    ELSE callback_exchange_and_respond(h, shared, t)

\* a callback run from start to end with nothing in between
callback_resume(s, t) ==
    IF s.h.pc = "done" THEN s ELSE callback_step(s.h, s.shared, t)

callback_run(h, shared, t) == callback_resume(callback_step(h, shared, t), t)

\* two browsers, each with the state cookie of its own session
ConcurrentRequests(nonce, platform) ==
    {[method |-> "GET",
      query |-> [code |-> "abc", state |-> s, platform |-> NONE],
      form |-> NoParams,
      cookie |-> _encode_state_cookie(nonce, platform, << >>, 0),
      should_redirect |-> sr] : s \in {"N1", "N2"}, sr \in BOOLEAN}

ConcurrentArgs ==
    [op : {"concurrent"},
     reqs : ConcurrentRequests("N1", "web") \X ConcurrentRequests("N2", "android"),
     replies : TokenEndpointReplies \X TokenEndpointReplies,
     loaded : ConfigDirs, gen : {"default", "injected"},
     t : {0, StateTtl + 1}]

\* both callbacks have reached handle_callback
CallbacksArrive ==
    /\ fnArgs.op = "concurrent"
    /\ fnResult = NoResult
    /\ fnResult' = [h |-> [i \in {1, 2} |->
                              NewCallback(fnArgs.reqs[i], fnArgs.replies[i])],
                    shared |-> SharedState(fnArgs.gen, fnArgs.loaded)]
    /\ UNCHANGED fnArgs
    /\ UNCHANGED protocolVars

\* the event loop resumes one of the callbacks up to its next await
CallbackStep ==
    /\ fnArgs.op = "concurrent"
    /\ fnResult # NoResult
    /\ \E i \in {1, 2} :
          /\ fnResult.h[i].pc # "done"
          /\ LET s == callback_step(fnResult.h[i], fnResult.shared, fnArgs.t)
             IN  fnResult' = [h |-> [fnResult.h EXCEPT ![i] = s.h],
                              shared |-> s.shared]
    /\ UNCHANGED fnArgs
    /\ UNCHANGED protocolVars

\* ------------------------------------------------ a state token replayed
\* One browser session: the state cookie is minted at time 0, a callback
\* with it is handled at t1, and the same request (same cookie, same state
\* parameter) is presented again `gap` seconds later.

ReplayArgs ==
    [op : {"replay"}, req : ConcurrentRequests("N1", "web"),
     reply : TokenEndpointReplies, loaded : ConfigDirs,
     gen : {"default", "injected"}, t1 : 0..MaxStartTime,
     gap : {0, 1, StateTtl - 1, StateTtl, StateTtl + 1}]

\* the callback is handled for the first time
HandleCallback ==
    /\ fnArgs.op = "replay"
    /\ fnResult = NoResult
    /\ LET run == callback_run(NewCallback(fnArgs.req, fnArgs.reply),
                      SharedState(fnArgs.gen, fnArgs.loaded), fnArgs.t1)
       IN  fnResult' = [first |-> run.h, shared |-> run.shared,
                        second |-> NewCallback(fnArgs.req, fnArgs.reply)]
    /\ UNCHANGED fnArgs
    /\ UNCHANGED protocolVars

\* the same callback is presented again, to the provider as the first left it
ReplayCallback ==
    /\ fnArgs.op = "replay"
    /\ fnResult # NoResult
    /\ fnResult.second.pc = "extract"
    /\ LET run == callback_run(fnResult.second, fnResult.shared,
                      fnArgs.t1 + fnArgs.gap)
       IN  fnResult' = [fnResult EXCEPT !.second = run.h, !.shared = run.shared]
    /\ UNCHANGED fnArgs
    /\ UNCHANGED protocolVars

\* ------------------------------------------- Google identity extraction
\* An id_token is its text and what verification finds in it; the token is
\* falsy in Python when it is None or its text is empty.  A claim that is
\* missing reads as None, email_verified and verified_email as False.
\* id_token.verify_oauth2_token(id_token_str, request, client_id) inside the
\* try of _extract_user_info_from_id_token: a token that is not signed by
\* Google or was issued for another audience raises, and so does
\* config.get when config is None; every exception gives {}
_extract_user_info_from_id_token(id_token_str, config) ==
    IF config = None \/ ~ id_token_str.signed
         \/ id_token_str.aud # config.client_id
    THEN EmptyInfo
    ELSE [id |-> id_token_str.sub, email |-> id_token_str.email,
          name |-> id_token_str.name,
          email_verified |-> id_token_str.email_verified,
          provider |-> "google"]

\* requests.get(userinfo_endpoint, Authorization: Bearer access_token):
\* the fields of an ok reply, {} for any other status and for an exception
_extract_user_info_from_endpoint(access_token, reply) ==
    IF reply.kind = "ok"
    THEN [id |-> reply.id, email |-> reply.email, name |-> reply.name,
          verified_email |-> reply.verified_email,
          provider |-> "google"]
    ELSE EmptyInfo

\* variant of _extract_google_user_info: the userinfo endpoint is asked
\* first, the id_token only when the endpoint gave nothing
ExtractGoogleEndpointFirst(oauth_result, config, reply) ==
    IF oauth_result = None \/ config = None
    THEN [user_info |-> EmptyInfo, userinfo_calls |-> << >>, raised |-> FALSE]
    ELSE IF ~ Falsy(oauth_result.access_token)
              /\ _extract_user_info_from_endpoint(oauth_result.access_token,
                     reply) # EmptyInfo
    THEN [user_info |->
              _extract_user_info_from_endpoint(oauth_result.access_token, reply),
          userinfo_calls |-> <<oauth_result.access_token>>,
          raised |-> FALSE]
    ELSE [user_info |->
              IF oauth_result.id_token = None \/ oauth_result.id_token.text = ""
              THEN EmptyInfo
              ELSE _extract_user_info_from_id_token(oauth_result.id_token,
                       config),
          userinfo_calls |->
              IF Falsy(oauth_result.access_token) THEN << >>
              ELSE <<oauth_result.access_token>>,
          raised |-> FALSE]

\* _extract_google_user_info(oauth_result, config), with the access tokens
\* the userinfo endpoint was called with.  oauth_result.get raises when
\* oauth_result is None, config.get (line 286) when config is None; both
\* are inside the function's try, whose except returns {}.
_extract_google_user_info(oauth_result, config, reply) ==
    IF oauth_result = None
    THEN [user_info |-> EmptyInfo, userinfo_calls |-> << >>, raised |-> FALSE]
    ELSE IF oauth_result.id_token # None /\ oauth_result.id_token.text # ""
              /\ _extract_user_info_from_id_token(oauth_result.id_token,
                     config) # EmptyInfo
    THEN [user_info |->
              _extract_user_info_from_id_token(oauth_result.id_token, config),
          userinfo_calls |-> << >>, raised |-> FALSE]
    ELSE IF Falsy(oauth_result.access_token) \/ config = None
    THEN [user_info |-> EmptyInfo, userinfo_calls |-> << >>, raised |-> FALSE]
    ELSE [user_info |->
              _extract_user_info_from_endpoint(oauth_result.access_token, reply),
          userinfo_calls |-> <<oauth_result.access_token>>,
          raised |-> FALSE]

ExtractGoogleUserInfo ==
    /\ fnArgs.op = "google_user_info"
    /\ fnResult = NoResult
    /\ fnResult' = _extract_google_user_info(fnArgs.oauth_result,
                       fnArgs.config, fnArgs.reply)
    /\ UNCHANGED fnArgs
    /\ UNCHANGED protocolVars

\* -------------------------------------------- Apple identity extraction
\* _extract_apple_user_info(oauth_result, config): the id_token is decoded
\* with jwt.decode(id_token_str, options={'verify_signature': False}), no
\* key.  jose.jwt.decode(token, key, algorithms, options, ...) has `key` as
\* a required parameter: a call without it raises TypeError before the
\* token is looked at; with it, a malformed token raises JWTError.  When
\* the decode raises, the identity is what the `user` field of the result
\* gives (name as <<firstName, lastName>>); {} when oauth_result.get raises.
_extract_apple_user_info(oauth_result) ==
    LET jwt_decode(token, key_given) ==
            IF ~ key_given THEN [ok |-> FALSE, exc |-> OtherExc("TypeError")]
            ELSE IF ~ token.well_formed
            THEN [ok |-> FALSE, exc |-> OtherExc("JWTError")]
            ELSE [ok |-> TRUE, claims |-> token]
    IN  IF oauth_result = None THEN EmptyInfo
        ELSE IF oauth_result.id_token # None /\ oauth_result.id_token.text # ""
                  /\ jwt_decode(oauth_result.id_token, FALSE).ok
        THEN [id |-> jwt_decode(oauth_result.id_token, FALSE).claims.sub,
              email |-> jwt_decode(oauth_result.id_token, FALSE).claims.email,
              email_verified |->
                  jwt_decode(oauth_result.id_token, FALSE).claims.email_verified,
              is_private_email |->
                  jwt_decode(oauth_result.id_token, FALSE).claims.is_private_email,
              provider |-> "apple"]
        ELSE IF oauth_result.user = None
        THEN [provider |-> "apple"]
        ELSE [provider |-> "apple",
              name |-> <<oauth_result.user.firstName, oauth_result.user.lastName>>,
              given_name |-> oauth_result.user.firstName,
              family_name |-> oauth_result.user.lastName]

ExtractAppleUserInfo ==
    /\ fnArgs.op = "apple_user_info"
    /\ fnResult = NoResult
    /\ fnResult' = [user_info |-> _extract_apple_user_info(fnArgs.oauth_result)]
    /\ UNCHANGED fnArgs
    /\ UNCHANGED protocolVars

\* --------------------------------------------------------- JWKS cache
_JWKS_TTL_SECONDS == 3600
MaxJwksCalls == 3

\* variant of _get_jwks: keys fetched exactly _JWKS_TTL_SECONDS ago are
\* still served from the cache
GetJwksInclusiveTtl(_jwks_cache, t, jwks_url, reply) ==
    IF _jwks_cache.keys # << >>
         /\ t - _jwks_cache.fetched_at <= _JWKS_TTL_SECONDS
    THEN [_jwks_cache |-> _jwks_cache, returned |-> _jwks_cache.keys,
          raised |-> NONE, requests |-> 0]
    ELSE IF jwks_url = ""
    THEN [_jwks_cache |-> _jwks_cache, returned |-> << >>,
          raised |-> "RuntimeError", requests |-> 0]
    ELSE IF reply.kind # "ok"
    THEN [_jwks_cache |-> _jwks_cache, returned |-> << >>,
          raised |-> reply.kind, requests |-> 1]
    ELSE [_jwks_cache |-> [keys |-> reply.keys, fetched_at |-> t],
          returned |-> reply.keys, raised |-> NONE, requests |-> 1]

\* _get_jwks() when time.time() is t, with the reply requests.get would receive:
\* the cache after the call, the keys returned, the exception raised and the
\* number of requests sent.  requests.get, raise_for_status, resp.json and
\* data.get raise before the cache is assigned; a JSON object without
\* "keys" gives the empty list.
_get_jwks(_jwks_cache, t, jwks_url, reply) ==
    IF _jwks_cache.keys # << >>
         /\ t - _jwks_cache.fetched_at < _JWKS_TTL_SECONDS
    THEN [_jwks_cache |-> _jwks_cache, returned |-> _jwks_cache.keys,
          raised |-> NONE, requests |-> 0]
    ELSE IF jwks_url = ""
    THEN [_jwks_cache |-> _jwks_cache, returned |-> << >>,
          raised |-> "RuntimeError", requests |-> 0]
    ELSE IF reply.kind # "ok"
    THEN [_jwks_cache |-> _jwks_cache, returned |-> << >>,
          raised |-> reply.kind, requests |-> 1]
    ELSE [_jwks_cache |-> [keys |-> reply.keys, fetched_at |-> t],
          returned |-> reply.keys, raised |-> NONE, requests |-> 1]

\* one more call of _get_jwks, some time after the one before; the module
\* starts with _jwks_cache = {"keys": [], "fetched_at": 0.0}
GetJwks ==
    /\ fnArgs.op = "jwks"
    /\ IF fnResult = NoResult THEN TRUE ELSE fnResult.calls < MaxJwksCalls
    /\ \E dt \in {0, 1, _JWKS_TTL_SECONDS - 1, _JWKS_TTL_SECONDS,
                  _JWKS_TTL_SECONDS + 1},
          reply \in {[kind |-> "ok", keys |-> <<"k1">>],
                     [kind |-> "ok", keys |-> <<"k2">>],
                     [kind |-> "ok", keys |-> << >>],
                     [kind |-> "ConnectionError"], [kind |-> "HTTPError"],
                     [kind |-> "JSONDecodeError"], [kind |-> "AttributeError"]} :
         LET before == IF fnResult = NoResult
                       THEN [keys |-> << >>, fetched_at |-> 0]
                       ELSE fnResult._jwks_cache
             t == IF fnResult = NoResult THEN fnArgs.start + dt
                  ELSE fnResult.now + dt
         IN  fnResult' =
                 [calls |-> IF fnResult = NoResult THEN 1
                            ELSE fnResult.calls + 1,
                  now |-> t, before |-> before, reply |-> reply]
                     @@ _get_jwks(before, t, fnArgs.jwks_url, reply)
    /\ UNCHANGED fnArgs
    /\ UNCHANGED protocolVars

\* ------------------------------------------------ local sample storage
\* A file name is the sequence of its pieces: the prefixes "text_" and
\* "voice_", "_", words, runs of digits and, last, an extension.  A
\* directory is the set of its files [name, data, mtime]; os.listdir gives
\* them in no particular order.  Writes that fail are left out: the
\* property is about samples that were stored.
MaxUploads == 3

\* _find_matching_pair(directory): the complete pairs, one of each suffix.
\* Text files are those whose name starts with "text_" or ends with
\* "_text_", voice files likewise; when several files of a kind have the
\* same suffix the listing order decides, so every combination is possible.
\* _extract_suffix(file_name, prefix) is the digits between the prefix and
\* the first "." when the name starts with the prefix, else the digits
\* after the first "_{prefix}"; None when neither is all digits.
_find_matching_pair(files) ==
    LET _extract_suffix(file_name, prefix) ==
            LET n == Len(file_name)
                digitsAt(i) ==
                    /\ i <= n
                    /\ file_name[i] \in {"0", "12", "100000", "100001"}
                    /\ (i = n \/ file_name[i + 1] \in {".wav", ".mp3", ".txt"})
                at == {i \in 1..(n - 1) :
                          file_name[i] = "_" /\ file_name[i + 1] = prefix}
                first == CHOOSE i \in at : \A j \in at : i <= j
            IN  IF file_name[1] = prefix /\ digitsAt(2) THEN file_name[2]
                ELSE IF at # {} /\ digitsAt(first + 2)
                THEN file_name[first + 2]
                ELSE NONE
        ofKind(prefix) ==
            {f \in files :
                \/ f.name[1] = prefix
                \/ Len(f.name) >= 2 /\ f.name[Len(f.name) - 1] = "_"
                                    /\ f.name[Len(f.name)] = prefix}
    IN  {p \in [text : {f \in ofKind("text_") :
                           _extract_suffix(f.name, "text_") # NONE},
                voice : {f \in ofKind("voice_") :
                            /\ f \notin ofKind("text_")
                            /\ _extract_suffix(f.name, "voice_") # NONE}] :
            _extract_suffix(p.text.name, "text_")
                = _extract_suffix(p.voice.name, "voice_")}

\* get_oldest_training_data(base_dir, hash_identifier): the text and the
\* voice URL of the pair whose text file has the smallest mtime
\* (pairs.sort(key=getmtime) then pairs[0]), None when there is no pair; the
\* set of the results the listing order allows
get_oldest_training_data(files) ==
    IF _find_matching_pair(files) = {} THEN {None}
    ELSE {[text |-> p.text.data, voice_url |-> p.voice.name] :
             p \in {q \in _find_matching_pair(files) :
                       \A o \in _find_matching_pair(files) :
                           q.text.mtime <= o.text.mtime}}

\* upload_or_update_data_local(base_dir, hash_identifier, text_data,
\* voice_data_bytes, audio_filename=...) when the clock shows t: suffix "0"
\* in an empty directory, else a random six-digit number; the text file is
\* written first, then the voice file, each replacing a file of its name.
\* _construct_filename(prefix, custom_name, suffix, default_extension) is
\* "{prefix}{suffix}{default_extension}" without a custom name, else
\* Path(custom_name).stem without a trailing _<digits>, then
\* "_{prefix}{suffix}{extension}".
upload_or_update_data_local(files, text_data, voice_data_bytes, audio_filename, random, t) ==
    LET _construct_filename(prefix, custom_name, suffix, default_extension) ==
            IF custom_name = NoName \/ custom_name = << >>
            THEN <<prefix, suffix, default_extension>>
            ELSE LET n == Len(custom_name)
                     hasExt == custom_name[n] \in {".wav", ".mp3", ".txt"}
                     stem == IF hasExt THEN SubSeq(custom_name, 1, n - 1)
                             ELSE custom_name
                     m == Len(stem)
                     base == IF m >= 2 /\ stem[m - 1] = "_"
                                  /\ stem[m] \in {"0", "12", "100000", "100001"}
                             THEN SubSeq(stem, 1, m - 2) ELSE stem
                 IN  base \o <<"_", prefix, suffix,
                               IF hasExt THEN custom_name[n]
                               ELSE default_extension>>
        suffix == IF files = {} THEN "0" ELSE random
        text_filename == _construct_filename("text_", NoName, suffix, ".txt")
        voice_filename ==
            _construct_filename("voice_", audio_filename, suffix, ".wav")
    IN  [files |->
            {f \in files : f.name \notin {text_filename, voice_filename}}
               \cup {[name |-> text_filename, data |-> text_data, mtime |-> t + 1],
                     [name |-> voice_filename, data |-> voice_data_bytes,
                      mtime |-> t + 2]},
         text_url |-> text_filename, voice_url |-> voice_filename]

\* one more sample is stored for the same hash identifier, whose directory
\* was empty before the first
UploadLocal ==
    /\ fnArgs.op = "local_storage"
    /\ IF fnResult = NoResult THEN TRUE ELSE fnResult.uploads < MaxUploads
    /\ \E text \in {"t2", "t3"}, voice \in {"v2"},
          name \in {NoName, <<"sample", ".wav">>, <<"voice_", "me", ".wav">>},
          random \in {"100000", "100001"} :
         LET first == fnResult = NoResult
             up == IF first
                   THEN upload_or_update_data_local({}, fnArgs.text_data,
                            fnArgs.voice_data_bytes, fnArgs.audio_filename,
                            random, 0)
                   ELSE upload_or_update_data_local(fnResult.files, text,
                            voice, name, random, 2 * fnResult.uploads)
         IN  fnResult' =
                 [files |-> up.files,
                  uploads |-> IF first THEN 1 ELSE fnResult.uploads + 1,
                  first_voice_url |-> IF first THEN up.voice_url
                                      ELSE fnResult.first_voice_url]
    /\ UNCHANGED fnArgs
    /\ UNCHANGED protocolVars

\* ------------------------------------------------------ init_auth_config
MaxInitCalls == 3

\* variant of init_auth_config: every call constructs a manager
InitAuthConfigAlwaysCreates(_auth_config, base_dir, order, token_generator_func, serial) ==
    LET r == _load_all_configs(order, << >>)
    IN  IF r.raised # NONE
        THEN [_auth_config |-> _auth_config, returned |-> NoManager,
              raised |-> r.raised]
        ELSE [_auth_config |->
                  [exists |-> TRUE, _configs |-> r._configs,
                   base_dir |-> base_dir,
                   token_generator_func |-> token_generator_func,
                   serial |-> serial],
              returned |->
                  [exists |-> TRUE, _configs |-> r._configs,
                   base_dir |-> base_dir,
                   token_generator_func |-> token_generator_func,
                   serial |-> serial],
              raised |-> NONE]

\* init_auth_config(base_dir, token_generator_func, ...), `order` being what
\* base_dir lists at the call and `serial` telling one manager object from
\* another: the module's _auth_config after the call, the manager returned
\* and the exception raised.  When AuthConfigManager(...) raises, the global
\* is not assigned.
init_auth_config(_auth_config, base_dir, order, token_generator_func, serial) ==
    IF _auth_config.exists
    THEN [_auth_config |-> _auth_config, returned |-> _auth_config,
          raised |-> NONE]
    ELSE IF _load_all_configs(order, << >>).raised # NONE
    THEN [_auth_config |-> _auth_config, returned |-> NoManager,
          raised |-> _load_all_configs(order, << >>).raised]
    ELSE [_auth_config |->
              [exists |-> TRUE,
               _configs |-> _load_all_configs(order, << >>)._configs,
               base_dir |-> base_dir,
               token_generator_func |-> token_generator_func,
               serial |-> serial],
          returned |->
              [exists |-> TRUE,
               _configs |-> _load_all_configs(order, << >>)._configs,
               base_dir |-> base_dir,
               token_generator_func |-> token_generator_func,
               serial |-> serial],
          raised |-> NONE]

\* one more call of init_auth_config, with any arguments, the directory
\* holding whatever it holds by then
InitAuthConfig ==
    /\ fnArgs.op = "init_auth_config"
    /\ IF fnResult = NoResult THEN TRUE ELSE fnResult.calls < MaxInitCalls
    /\ \E base_dir \in {"conf.d", "other.d"},
          dir \in Directories(1),
          token_generator_func \in {"default", "injected"} :
         \E order \in GlobOrders(dir) :
            LET before == IF fnResult = NoResult THEN NoManager
                          ELSE fnResult._auth_config
                serial == IF fnResult = NoResult THEN 1
                          ELSE fnResult.calls + 1
            IN  fnResult' =
                    [calls |-> serial, before |-> before,
                     base_dir |-> base_dir,
                     token_generator_func |-> token_generator_func,
                     loadable |-> _load_all_configs(order, << >>)]
                       @@ init_auth_config(before, base_dir, order,
                              token_generator_func, serial)
    /\ UNCHANGED fnArgs
    /\ UNCHANGED protocolVars

\* --------------------------------------------- /train_audio and its caller
\* A JWT is None when the request carries none, else whether
\* decode_jwt_token accepts it (signature and expiry) and its payload, None
\* for an empty payload; payload.get('va-dir', '') of a payload without
\* va-dir is "".

\* get_auth_context(credentials, auth_token): the bearer token is decoded
\* when there is one, then the cookie when there is one, the later payload
\* replacing the earlier; any exception of either decode ends in the
\* unauthenticated context
get_auth_context(credentials, auth_token) ==
    LET unauthenticated ==
            [authenticated |-> FALSE, va_dir |-> "default_user_123",
             auth_source |-> "none", is_Admin |-> FALSE, name |-> ""]
        context(payload, auth_source) ==
            IF payload = None THEN unauthenticated
            ELSE [authenticated |-> TRUE, va_dir |-> payload.va_dir,
                  auth_source |-> auth_source,
                  is_Admin |-> payload.isAdmin, name |-> payload.name]
    IN  IF credentials # None /\ ~ credentials.valid THEN unauthenticated
        ELSE IF auth_token # None /\ ~ auth_token.valid THEN unauthenticated
        ELSE IF auth_token # None THEN context(auth_token.payload, "cookie")
        ELSE IF credentials # None THEN context(credentials.payload, "bearer")
        ELSE unauthenticated

\* variant of train_audio: a caller who is not an admin stores under the
\* hash_id of the form
TrainAudioTrustsHashId(auth_context, text, hash_id, backend) ==
    IF ~ auth_context.authenticated \/ text = ""
         \/ (IF Falsy(hash_id) THEN auth_context.va_dir ELSE hash_id) = ""
    THEN [status |-> HTTP_SERVER_ERROR, hash_identifier |-> NONE]
    ELSE [status |-> IF backend = "stored" THEN HTTP_OK ELSE HTTP_SERVER_ERROR,
          hash_identifier |->
              IF Falsy(hash_id) THEN auth_context.va_dir ELSE hash_id]

\* train_audio(audio, text, hash_id, auth_context): its status and the
\* hash_identifier it called the storage backend with, NONE when it did not
\* call it.  Every HTTPException raised in the body (401, 400, 500) is
\* caught by the function's own `except Exception` and answered 500; the
\* backend stores, raises or returns (None, None).
train_audio(auth_context, text, hash_id, backend) ==
    LET own == IF auth_context.is_Admin
               THEN IF Falsy(hash_id) THEN "default_user_123" ELSE hash_id
               ELSE auth_context.va_dir
    IN  IF ~ auth_context.authenticated \/ text = "" \/ own = ""
        THEN [status |-> HTTP_SERVER_ERROR, hash_identifier |-> NONE]
        ELSE [status |-> IF backend = "stored" THEN HTTP_OK
                         ELSE HTTP_SERVER_ERROR,
              hash_identifier |-> own]

\* POST /train_audio: the dependency get_auth_context, then the handler
TrainAudio ==
    /\ fnArgs.op = "train_audio"
    /\ fnResult = NoResult
    /\ fnResult' =
           [auth_context |->
                get_auth_context(fnArgs.credentials, fnArgs.auth_token)]
              @@ train_audio(
                     get_auth_context(fnArgs.credentials, fnArgs.auth_token),
                     fnArgs.text, fnArgs.hash_id, fnArgs.backend)
    /\ UNCHANGED fnArgs
    /\ UNCHANGED protocolVars

FunctionArgs ==
    RoundTripArgs \cup StateArgs \cup NormalizeArgs \cup CreateStateArgs
        \cup AppleSecretArgs \cup AuthCookieArgs \cup ExchangeArgs
        \cup RouteArgs
        \cup [op : {"train_audio"},
               credentials :
                  {None} \cup [valid : BOOLEAN,
                               payload : {None}
                                  \cup [va_dir : {"google_A", ""},
                                        isAdmin : BOOLEAN, name : {"A"}]],
               auth_token :
                  {None} \cup [valid : BOOLEAN,
                               payload : {None}
                                  \cup [va_dir : {"google_B", ""},
                                        isAdmin : BOOLEAN, name : {"B"}]],
               text : {"hello", ""},
               hash_id : {NONE, "", "google_A", "google_B", "victim"},
               backend : {"stored", "raises", "none"}]
        \cup [op : {"init_auth_config"}]
        \cup [op : {"local_storage"}, text_data : {"t1"},
               voice_data_bytes : {"v1"},
               audio_filename :
                  {NoName, << >>, <<"sample", ".wav">>, <<"blob">>,
                   <<"rec", "_", "12", ".mp3">>, <<"voice_", "me", ".wav">>}]
        \cup [op : {"jwks"}, jwks_url : {"", "https://idp/jwks"},
               start : {0, _JWKS_TTL_SECONDS}]
        \cup [op : {"apple_user_info"},
               oauth_result :
                  {None}
                     \cup [id_token :
                              {None}
                                 \cup [text : {"", "eyJ"},
                                       well_formed : BOOLEAN,
                                       sub : {"a1", NONE},
                                       email : {"r@privaterelay.appleid.com"},
                                       email_verified : BOOLEAN,
                                       is_private_email : BOOLEAN],
                           user : {None, [firstName |-> "A", lastName |-> "B"]}]]
        \cup [op : {"google_user_info"},
               oauth_result :
                  {None}
                     \cup [id_token :
                              {None}
                                 \cup [text : {"", "eyJ"}, signed : BOOLEAN,
                                       aud : {"cid", "other"},
                                       sub : {"u1", NONE}, email : {"x@y.com"},
                                       name : {"X"},
                                       email_verified : BOOLEAN],
                           access_token : {NONE, "", "at1"}],
               config : {None, [client_id |-> "cid"]},
               reply : {[kind |-> "ok", id |-> "u2", email |-> "e@f.com",
                         name |-> "E", verified_email |-> TRUE],
                        [kind |-> "ok", id |-> NONE, email |-> NONE,
                         name |-> NONE, verified_email |-> FALSE],
                        [kind |-> "status"], [kind |-> "raises"]}]
        \cup ReplayArgs
        \cup ConcurrentArgs
        \cup CallbackParamsArgs
        \cup LoaderArgs
        \cup ManagerArgs
        \cup ParseArgs

InitFunctions ==
    /\ now = 0
    /\ ticks = 0
    /\ issued = 0
    /\ browserCookie = None
    /\ stateResponse = NoStateResponse
    /\ configs = {"web", "android"}
    /\ tokenGen = "default"
    /\ storageFunc = "none"
    /\ pc = "idle"
    /\ request = NoRequest
    /\ locals = InitLocals
    /\ exc = NoExc
    /\ response = None
    /\ calls = NoCalls
    /\ outcome = NoOutcome
    /\ fnArgs \in FunctionArgs
    /\ fnResult = NoResult

NextFunctions ==
    \/ StateTokenRoundTrip
    \/ IssueStateAlone
    \/ NormalizePlatformAlone
    \/ CreateStateAlone
    \/ BuildAppleClientSecret
    \/ SetAuthCookieAlone
    \/ ExchangeFromClient
    \/ RouteRequest
    \/ TrainAudio
    \/ InitAuthConfig
    \/ UploadLocal
    \/ GetJwks
    \/ ExtractAppleUserInfo
    \/ ExtractGoogleUserInfo
    \/ ReplayCallback
    \/ HandleCallback
    \/ CallbackStep
    \/ CallbacksArrive
    \/ DefaultExtraction
    \/ LoadProviderConfig
    \/ GetAuthConfig
    \/ ReloadManager
    \/ ConstructManager
    \/ ParseConfigFilename

SpecFunctions == InitFunctions /\ [][NextFunctions]_vars

\* ================================================================ claims
Present(v) == v # NONE /\ v # ""
ReqCode == MergedParams(request).code
ReqState == MergedParams(request).state
CookieSigned ==
    /\ request.cookie # None
    /\ request.cookie.sig = Sign(request.cookie.payload, Secret)
CookieFresh == request.cookie.payload.exp >= now
NoJwt == response.token = NoToken /\ response.auth_cookie = NoToken

\* C1: a callback with a code, a state parameter and a validly signed,
\* unexpired state cookie whose nonce differs from the state parameter is
\* answered with HTTP 400 reporting the state error, and with no
\* application JWT, whatever the code.
C1_StateMismatchAnswered400 ==
    (/\ pc = "done"
     /\ Present(ReqCode) /\ Present(ReqState)
     /\ CookieSigned /\ CookieFresh
     /\ request.cookie.payload.state # ReqState)
    => (/\ outcome.kind = "returned"
        /\ response # None
        /\ response.status = HTTP_BAD_REQUEST
        /\ response.error = "Invalid state parameter"
        /\ NoJwt)

\* C2: the platform passed to config_loader is always the platform claim of
\* the verified state token of the cookie; a platform in the query string
\* or the form of the callback has no influence on it.
C2_ConfigPlatformFromToken ==
    calls.config_loader # NONE
    => (/\ CookieSigned
        /\ request.cookie.payload.state = ReqState
        /\ calls.config_loader = request.cookie.payload.platform)

\* C2 witness: a request that says platform=android, with a cookie for web,
\* had the web config loaded
C2_Witness ==
    /\ MergedParams(request).platform = "android"
    /\ request.cookie # None
    /\ request.cookie.payload.platform = "web"
    /\ calls.config_loader = "web"
    /\ locals.config # Unbound
    /\ locals.config.platform = "web"

\* C3: every invocation of handle_callback, successful or failed at any
\* step, ends with a response that deletes the state cookie.
C3_StateCookieAlwaysDeleted ==
    pc = "done"
    => (/\ outcome.kind = "returned"
        /\ response # None
        /\ response.state_cookie_deleted)

\* C4: any exception raised during extraction and state verification,
\* config loading, code exchange or identity extraction is caught inside
\* handle_callback and answered with an error response without a token; no
\* exception leaves handle_callback.
C4_NoExceptionPropagates ==
    pc = "done"
    => (/\ outcome.kind = "returned"
        /\ response # None
        /\ (~ response.is_success => (response.error # NONE /\ NoJwt)))

\* C5: after /state for platform web returned nonce N and set the cookie, a
\* callback with a code, state=N and that cookie, whose exchange succeeds
\* with an id_token, yields a success response with an application JWT
\* whose platform claim is web, with an injected token generator and with
\* the default one alike.
C5_EndToEndSuccess ==
    (/\ pc = "done"
     /\ request.cookie # None /\ request.cookie = browserCookie
     /\ request.cookie.payload.platform = "web"
     /\ request.cookie.payload.state = ReqState
     /\ Present(ReqCode)
     /\ calls.endpoint_status = HTTP_OK
     /\ locals.result # Unbound /\ locals.result.id_token # NONE
     /\ calls.storage # "raised")
    => (/\ outcome.kind = "returned"
        /\ response # None
        /\ response.is_success
        /\ response.token # NoToken
        /\ response.token.platform = "web")

\* C6 as stated: when state verification and config loading succeed but the
\* token endpoint answers with a non-OK status, the callback returns an
\* HTTP 502 response with no application JWT and deletes the state cookie.
C6_UpstreamFailureIs502 ==
    (pc = "done" /\ calls.endpoint_status \notin {0, HTTP_OK})
    => (/\ outcome.kind = "returned"
        /\ response # None
        /\ response.status = HTTP_BAD_GATEWAY
        /\ NoJwt
        /\ response.state_cookie_deleted)

\* C6 amended: when state verification and config loading succeed but the
\* token endpoint answers with a non-OK status, the callback returns a
\* failure response with no application JWT that deletes the state cookie;
\* its status is 502 when should_redirect is false (HTML or JSON) and 302,
\* a redirect to the deep link carrying the error, when it is true.
C6_UpstreamFailureAnswered ==
    (pc = "done" /\ calls.endpoint_status \notin {0, HTTP_OK})
    => (/\ outcome.kind = "returned"
        /\ response # None
        /\ ~ response.is_success
        /\ response.error = "token endpoint error"
        /\ response.status = IF request.should_redirect THEN HTTP_FOUND
                             ELSE HTTP_BAD_GATEWAY
        /\ (request.should_redirect <=> response.kind = "redirect")
        /\ NoJwt
        /\ response.state_cookie_deleted)

\* C6 witness: a callback whose exchange was refused with 401 was answered 502
C6_Witness ==
    /\ pc = "done"
    /\ calls.endpoint_status = 401
    /\ response # None
    /\ response.status = HTTP_BAD_GATEWAY
    /\ response.state_cookie_deleted

\* C7: a callback in which code or state is missing or empty is answered
\* with HTTP 400 saying the required parameters are missing; no config is
\* loaded and no exchange is attempted.
C7_MissingParamsAnswered400 ==
    (pc = "done" /\ ~ (Present(ReqCode) /\ Present(ReqState)))
    => (/\ outcome.kind = "returned"
        /\ response # None
        /\ response.status = HTTP_BAD_REQUEST
        /\ response.error = "Missing required parameters"
        /\ calls.config_loader = NONE
        /\ ~ calls.exchange)

\* C8: a callback whose state cookie fails signature verification or is
\* expired is answered with HTTP 400; it never yields a success response
\* and never a status other than 400.
C8_BadCookieAnswered400 ==
    (/\ pc = "done"
     /\ Present(ReqCode) /\ Present(ReqState)
     /\ request.cookie # None
     /\ (~ CookieSigned \/ ~ CookieFresh)
     /\ calls.config_loader = NONE)
    => (/\ outcome.kind = "returned"
        /\ response # None
        /\ ~ response.is_success
        /\ response.status = HTTP_BAD_REQUEST)

\* C9: when the state is verified but no configuration exists for the
\* platform of the token, the callback is answered with HTTP 400 "Invalid
\* platform"; no other config is used and no exchange is attempted.
C9_MissingConfigAnswered400 ==
    (/\ pc = "done"
     /\ calls.config_loader # NONE
     /\ Lower(calls.config_loader) \notin configs)
    => (/\ outcome.kind = "returned"
        /\ response # None
        /\ response.status = HTTP_BAD_REQUEST
        /\ response.error = "Invalid platform"
        /\ locals.config = Unbound
        /\ ~ calls.exchange)

\* C10: if storage_func raises during a callback whose state verification,
\* exchange and token minting succeeded, the client still receives the
\* success response with the application JWT.
C10_StorageFailureIsolated ==
    (pc = "done" /\ calls.storage = "raised")
    => (/\ outcome.kind = "returned"
        /\ response # None
        /\ response.is_success
        /\ response.token = locals.token)

\* C11: when the identity extraction fails or yields nothing, so that
\* handle_callback goes on with the empty identity {}, the callback still
\* mints a token and is answered with the success response.
C11_EmptyIdentityStillSucceeds ==
    (/\ pc = "done"
     /\ locals.user_info = EmptyInfo
     /\ calls.storage # "raised")
    => (/\ outcome.kind = "returned"
        /\ response # None
        /\ response.is_success
        /\ response.token # NoToken
        /\ response.token = locals.token)

Applied(op) == fnArgs.op = op /\ fnResult # NoResult

\* C12: for every nonce, platform P and extra-claims map C, whatever its
\* keys, decoding the token of _encode_state_cookie(nonce, P, C) with the
\* same secret gives state = nonce, platform = P and every entry of C.
C12_RoundTripAnyExtra ==
    (Applied("round_trip") /\ fnArgs.dt = 0)
    => (/\ fnResult.decoded.ok
        /\ fnResult.decoded.payload.state = fnArgs.state
        /\ fnResult.decoded.payload.platform = fnArgs.platform
        /\ \A k \in DOMAIN fnArgs.extra :
               fnResult.decoded.payload[k] = fnArgs.extra[k])

\* C13: a state token made at t0 by a provider with TTL T (600 s) carries
\* exp - iat = T; _decode_state_cookie accepts it at t0 + T - 1 and rejects
\* it, as expired, at t0 + T + 1.
C13_ExpiryWindow ==
    Applied("round_trip")
    => (/\ fnResult.token.payload.iat = fnArgs.t0
        /\ fnResult.token.payload.exp - fnResult.token.payload.iat = StateTtl
        /\ StateTtl = 600
        /\ (fnArgs.dt = StateTtl - 1 =>
               /\ fnResult.decoded.ok
               /\ fnResult.decoded.payload = fnResult.token.payload)
        /\ (fnArgs.dt = StateTtl + 1 =>
               /\ ~ fnResult.decoded.ok
               /\ fnResult.decoded.exc =
                      HttpExc(HTTP_BAD_REQUEST, "State token has expired")))

\* C13 witness: a token made at t0 was refused as expired T + 1 seconds later
C13_Witness ==
    /\ Applied("round_trip")
    /\ fnArgs.dt = StateTtl + 1
    /\ fnResult.token.payload.exp = fnArgs.t0 + StateTtl
    /\ ~ fnResult.decoded.ok

\* C14: a state cookie that is not a token signed with the provider's
\* secret (its payload or signature altered, or signed with another key) is
\* never accepted by state verification: the verification raises 400
\* "Invalid state parameter", and no platform, code_verifier or return_url
\* of the cookie is used (no local takes them, no config is loaded, no
\* exchange is made, no response carries its return_url).
C14_TamperedNeverAccepted ==
    (/\ pc # "idle"
     /\ request.cookie # None
     /\ ~ CookieSigned)
    => (/\ locals.platform = UNBOUND
        /\ locals.code_verifier = UNBOUND
        /\ locals.return_url = UNBOUND
        /\ locals.config = Unbound
        /\ calls.config_loader = NONE
        /\ ~ calls.exchange
        /\ pc \in {"extract", "except_http", "finally", "done"}
        /\ (pc = "except_http" /\ Present(ReqCode) /\ Present(ReqState)
              => exc = HttpExc(HTTP_BAD_REQUEST, "Invalid state parameter"))
        /\ (response # None => ~ response.is_success))

\* C14 witness: the verification refused a cookie whose payload was altered
\* although its nonce is the state of the request
C14_Witness ==
    /\ pc = "except_http"
    /\ browserCookie # None
    /\ request.cookie = Tampered(browserCookie)
    /\ request.cookie.payload.state = ReqState
    /\ Present(ReqCode)
    /\ exc = HttpExc(HTTP_BAD_REQUEST, "Invalid state parameter")
    /\ locals.platform = UNBOUND

\* C15: the body of a non-OK answer of the token endpoint never reaches the
\* client: the failure response has the fixed message and a status fixed by
\* should_redirect, so two callbacks that differ only in that body get the
\* same status and the same error message.
C15_ErrorBodyNotLeaked ==
    (/\ pc = "done"
     /\ calls.endpoint_status \notin {0, HTTP_OK}
     /\ calls.endpoint_body \in ErrorBodies)
    => (/\ outcome.kind = "returned"
        /\ response # None
        /\ response.error # calls.endpoint_body
        /\ \A body \in ErrorBodies :
              /\ response.error =
                    _exchange_code_for_tokens(locals.config,
                        [ok |-> FALSE, status |-> calls.endpoint_status,
                         id_token |-> NONE, body |-> body]).exc.detail
              /\ response.status =
                    IF request.should_redirect THEN HTTP_FOUND
                    ELSE _exchange_code_for_tokens(locals.config,
                             [ok |-> FALSE, status |-> calls.endpoint_status,
                              id_token |-> NONE, body |-> body]).exc.status
        /\ NoJwt)

\* C15 witness: a refusal whose body names a secret was answered with the
\* fixed message
C15_Witness ==
    /\ pc = "done"
    /\ calls.endpoint_body = "invalid_client: secret sk-1 rejected"
    /\ response # None
    /\ response.error = "token endpoint error"
    /\ ~ response.is_success

Succeeded == pc = "done" /\ response # None /\ response.is_success

\* C16 as stated: the shape of a success response is selected by the
\* platform of the state token, for both values of should_redirect: web
\* gives the HTML page embedding the token, with the auth cookie; any other
\* platform gives a deep-link redirect or a JSON body carrying the token,
\* never the HTML page.
C16_ShapeByPlatform ==
    Succeeded
    => (/\ locals.platform = request.cookie.payload.platform
        /\ response.token = locals.token
        /\ IF locals.platform = "web"
           THEN response.kind = "html" /\ response.auth_cookie = locals.token
           ELSE response.kind \in {"redirect", "json"})

\* C16 amended: should_redirect decides first.  When it is true every
\* platform, web included, gets the 302 deep-link redirect carrying the
\* token; when it is false, web gets the HTML page embedding the token and
\* any other platform the JSON body, never the HTML page.  Every success
\* response sets the auth cookie.
C16_ShapeByRedirectThenPlatform ==
    Succeeded
    => (/\ locals.platform = request.cookie.payload.platform
        /\ response.token = locals.token
        /\ response.token # NoToken
        /\ response.auth_cookie = locals.token
        /\ response.kind = IF request.should_redirect THEN "redirect"
                           ELSE IF locals.platform = "web" THEN "html"
                           ELSE "json"
        /\ response.status = IF request.should_redirect THEN HTTP_FOUND
                             ELSE HTTP_OK)

\* C16 witness: a successful callback of a non-web platform, not
\* redirected, got the JSON body with the token
C16_Witness ==
    /\ Succeeded
    /\ request.cookie.payload.platform = "android"
    /\ ~ request.should_redirect
    /\ response.kind = "json"
    /\ response.token = locals.token

\* C17: the body of a /state answer (Google and Apple) has exactly the raw
\* nonce and the platform, never the signed state token; the signed token
\* goes out only as one cookie, named after the provider (g_oidc_state /
\* a_oidc_state), HttpOnly, Secure, SameSite=Lax, path "/".
C17_StateBodyWithoutToken ==
    Applied("state")
    => IF fnResult.status = HTTP_OK
       THEN /\ DOMAIN fnResult.body = {"state", "platform"}
            /\ fnResult.body.state = fnArgs.state
            /\ Cardinality(fnResult.set_cookie) = 1
            /\ \A c \in fnResult.set_cookie :
                  /\ c.key = (IF fnArgs.provider = "Google" THEN "g_oidc_state"
                              ELSE "a_oidc_state")
                  /\ c.httponly /\ c.secure
                  /\ c.samesite = "lax"
                  /\ c.path = "/"
                  /\ c.value.sig = Sign(c.value.payload, Secret)
                  /\ c.value.payload.state = fnResult.body.state
                  /\ c.value.payload.platform = fnResult.body.platform
       ELSE /\ DOMAIN fnResult.body = {"detail"}
            /\ fnResult.set_cookie = {}

\* C17 witness: Apple's /state answered a request for web with the nonce in
\* the body and the token in a_oidc_state
C17_Witness ==
    /\ Applied("state")
    /\ fnArgs.provider = "Apple"
    /\ fnResult.status = HTTP_OK
    /\ fnResult.body = [state |-> fnArgs.state, platform |-> "web"]
    /\ \E c \in fnResult.set_cookie :
          c.key = "a_oidc_state" /\ c.value.payload.state = fnArgs.state

\* what test_normalize_platform expects, and the lower-case form of the
\* other platform names
ExpectedPlatform(platform) ==
    CASE platform \in {NONE, "", "web", "WEB"} -> "web"
      [] platform \in {"iOS", "ios"} -> "ios"
      [] platform \in {"AnDrOiD", "Android", "android"} -> "android"

\* C18: platform normalization maps every platform string to its
\* lower-case form and an absent or empty platform to "web" (so it changes
\* nothing when applied again), and a state token made by
\* create_state_response carries the normalized platform.
C18_PlatformNormalized ==
    /\ Applied("normalize")
         => (/\ fnResult.value = ExpectedPlatform(fnArgs.platform)
             /\ _normalize_platform(fnResult.value) = fnResult.value)
    /\ Applied("create_state")
         => (/\ fnResult.platform = ExpectedPlatform(fnArgs.platform)
             /\ fnResult.signed_state.payload.platform
                    = ExpectedPlatform(fnArgs.platform)
             /\ _decode_state_cookie(fnResult.signed_state, fnArgs.t0).ok)

\* C18 witness: the token made for platform "AnDrOiD" says android
C18_Witness ==
    /\ Applied("create_state")
    /\ fnArgs.platform = "AnDrOiD"
    /\ fnResult.signed_state.payload.platform = "android"

CompleteAppleConfig ==
    /\ Present(fnArgs.client_cfg.client_id)
    /\ Present(fnArgs.client_cfg.team_id)
    /\ Present(fnArgs.client_cfg.key_id)
    /\ Present(fnArgs.client_cfg.auth_key_path)

C20_AuthCookieMatchesJwt ==
    Applied("auth_cookie")
    => \A c \in fnResult.set_cookie :
          /\ c.key = "auth_token"
          /\ c.httponly /\ c.secure
          /\ c.samesite = "lax"
          /\ c.path = "/"
          /\ c.max_age = c.value.exp - c.value.iat

\* C21: POST /exchange (Google and Apple) with a non-empty code and
\* redirect_uri, a configured platform and a token endpoint that answers OK
\* returns the provider's raw token payload to the caller.
C21_ExchangeReturnsPayload ==
    (/\ Applied("exchange")
     /\ Present(fnArgs.body.code)
     /\ Present(fnArgs.body.redirect_uri)
     /\ _normalize_platform(fnArgs.body.platform) \in fnArgs.loaded
     /\ fnArgs.reply.ok)
    => (/\ fnResult.status = HTTP_OK
        /\ fnResult.body = [id_token |-> fnArgs.reply.id_token])

\* C22: each provider accepts GET and POST on /auth/{provider}/state and
\* on /auth/{provider}/callback: a POST to the callback and a GET to /state
\* reach the same handlers as their counterparts.
C22_GetAndPostRouted ==
    (Applied("route") /\ fnArgs.path \in {"/state", "/callback"})
    => (/\ fnResult.routed
        /\ fnResult.handler = (IF fnArgs.path = "/state"
                               THEN "issue_state_post" ELSE "callback"))

LoadedFrom == IF fnResult.phase = "reloaded" THEN fnArgs.atReload ELSE fnArgs.atInit

Looked == fnArgs.op = "manager" /\ fnResult # NoResult /\ fnResult.lookup # NoLookup

\* C25: get_auth_config(provider, platform) returns the config that was
\* loaded for the lower-cased pair, from a file named for that pair, and
\* raises KeyError exactly when no config was loaded for the pair.
C25_GetAuthConfigExactPair ==
    Looked
    => LET key == <<lower(fnResult.lookup.provider), lower(fnResult.lookup.platform)>>
           r == fnResult.lookup.result
       IN  IF key \in DOMAIN fnResult._configs
           THEN /\ r.ok
                /\ r.config = fnResult._configs[key]
                /\ r.config.provider = key[1]
                /\ r.config.platform = key[2]
                /\ \E f \in LoadedFrom :
                      /\ _parse_config_filename(f.name) = key
                      /\ \E i \in 1..Len(f.lines) :
                            f.lines[i] = Assign("client_id", r.config.client_id)
           ELSE ~ r.ok /\ r.exc = "KeyError"

\* after a reload that loaded (g, w) and (a, i), the pair ("G", "W") has
\* been looked up and the config of (g, w) was returned
C25_Witness ==
    /\ Looked
    /\ fnResult.phase = "reloaded"
    /\ DOMAIN fnResult._configs = {<<<<"g">>, <<"w">>>>, <<<<"a">>, <<"i">>>>}
    /\ fnResult.lookup.provider = <<"G">>
    /\ fnResult.lookup.platform = <<"W">>
    /\ fnResult.lookup.result.ok
    /\ fnResult.lookup.result.config.provider = <<"g">>

\* a file whose name parses to a pair and whose lines yield at least one
\* key=value entry
ValidConfigFile(f) ==
    /\ _parse_config_filename(f.name) # <<NoName, NoName>>
    /\ \A i \in 1..Len(f.lines) : f.lines[i].kind # "bare"
    /\ \E i \in 1..Len(f.lines) : f.lines[i].kind = "assign"

\* C27: after reload() the loaded pairs are exactly the pairs of the valid,
\* non-empty config files that are in the directory at the reload.
C27_ReloadLoadsDirectory ==
    (fnArgs.op = "manager" /\ fnResult # NoResult /\ fnResult.phase = "reloaded")
    => DOMAIN fnResult._configs
          = {_parse_config_filename(f.name) :
                 f \in {g \in fnArgs.atReload : ValidConfigFile(g)}}

\* C24: whenever get_auth_config fails for the requested platform (no
\* manager initialised, no config loaded for the pair, or a platform that
\* cannot be lower-cased), Google's get_platform_config and Apple's
\* get_platform_client_config raise HTTPException 500 whose detail contains
\* "not properly configured".
C24_LoaderFailureIs500 ==
    (/\ Applied("loader")
     /\ \/ ~ fnArgs.manager.exists
        \/ fnArgs.platform = NoName
        \/ <<ProviderKey(fnArgs.provider), lower(fnArgs.platform)>>
               \notin DOMAIN fnArgs.manager._configs)
    => (/\ ~ fnResult.ok
        /\ fnResult.exc.type = "HTTPException"
        /\ fnResult.exc.status = HTTP_SERVER_ERROR
        /\ \E i \in 1..Len(fnResult.exc.detail) :
              fnResult.exc.detail[i] = "not properly configured")

\* Apple's loader has been asked for a platform that an initialised manager
\* holds no config for, and has answered 500
C24_Witness ==
    /\ Applied("loader")
    /\ fnArgs.provider = "Apple"
    /\ fnArgs.manager.exists
    /\ fnArgs.manager._configs # << >>
    /\ fnArgs.platform = <<"w">>
    /\ ~ fnResult.ok
    /\ fnResult.exc.status = HTTP_SERVER_ERROR

\* C28: when the default extraction succeeds, the code_verifier handed to
\* the exchange callback and the return_url handed to the response are those
\* of the state token of the cookie (None when the token has no
\* code_verifier, "/" when it has no return_url), whatever code_verifier and
\* return_url the query string and the form of the request carry.
C28_VerifierAndReturnUrlFromToken ==
    (Applied("callback_params") /\ fnResult.ok)
    => (/\ fnArgs.req.cookie # None
        /\ fnResult.code_verifier = fnArgs.req.cookie.payload.code_verifier
        /\ fnResult.return_url =
              (IF fnArgs.req.cookie.payload.return_url = NONE THEN "/"
               ELSE fnArgs.req.cookie.payload.return_url))

\* a POST whose query string and form both carry a code_verifier and a
\* return_url of their own has passed the extraction with the token's values
C28_Witness ==
    /\ Applied("callback_params")
    /\ fnResult.ok
    /\ fnArgs.req.method = "POST"
    /\ fnArgs.req.query.code_verifier = "cv-request"
    /\ fnArgs.req.query.return_url = "/evil"
    /\ fnArgs.req.form.code_verifier = "cv-form"
    /\ fnResult.code_verifier = "cv1"
    /\ fnResult.return_url = "/home"

C29_VerifiedBeforeLoaderAndExchange ==
    /\ (pc = "load_config"
          => CookieSigned /\ CookieFresh /\ request.cookie.payload.state = ReqState)
    /\ (calls.exchange => calls.config_loader # NONE)
    /\ ((calls.config_loader # NONE \/ pc = "exchange")
          => (/\ Present(ReqCode)
              /\ Present(ReqState)
              /\ CookieSigned
              /\ request.cookie.payload.state = ReqState
              /\ locals.state = ReqState
              /\ locals.platform = request.cookie.payload.platform
              /\ locals.return_url # UNBOUND))

\* the exchange callback has been invoked, after config_loader, for a POST
\* callback with a verified cookie
C29_Witness ==
    /\ calls.exchange
    /\ calls.config_loader = "android"
    /\ request.method = "POST"
    /\ CookieSigned
    /\ request.cookie.payload.state = ReqState

\* C30: after a callback with a state cookie and a state parameter has
\* passed state verification and been handled, the same cookie and state
\* presented again pass state verification again as long as the token has
\* not expired, and are refused once it has.
C30_StateTokenReplayable ==
    (/\ Applied("replay")
     /\ fnResult.first.platform # UNBOUND
     /\ fnResult.second.pc = "done")
    => IF fnArgs.t1 + fnArgs.gap <= fnArgs.req.cookie.payload.exp
       THEN /\ fnResult.second.platform = fnArgs.req.cookie.payload.platform
            /\ fnResult.second.return_url # UNBOUND
       ELSE /\ fnResult.second.platform = UNBOUND
            /\ fnResult.second.config = Unbound
            /\ (fnResult.second.response # None
                  => ~ fnResult.second.response.is_success)

\* a callback that ended in a successful response has been replayed one
\* second before the token expired, and ended in a successful response again
C30_Witness ==
    /\ Applied("replay")
    /\ fnResult.first.response # None
    /\ fnResult.first.response.is_success
    /\ fnArgs.t1 = 0
    /\ fnArgs.gap = StateTtl - 1
    /\ fnResult.second.pc = "done"
    /\ fnResult.second.response # None
    /\ fnResult.second.response.is_success

\* C31: Google identity extraction prefers the id_token: when the exchange
\* result holds an id_token whose verification succeeds, the identity is
\* built from its claims and the userinfo endpoint is not called; the
\* endpoint is called, with the access token, only when the id_token is
\* absent or gave nothing; when both sources fail the result is the empty
\* record; the extractor never raises.
C31_IdTokenPreferred ==
    Applied("google_user_info")
    => LET r == fnArgs.oauth_result
           idOk == /\ r # None
                   /\ r.id_token # None
                   /\ r.id_token.text # ""
                   /\ fnArgs.config # None
                   /\ r.id_token.signed
                   /\ r.id_token.aud = fnArgs.config.client_id
       IN  /\ ~ fnResult.raised
           /\ idOk => /\ fnResult.userinfo_calls = << >>
                      /\ fnResult.user_info.provider = "google"
                      /\ fnResult.user_info.id = r.id_token.sub
                      /\ fnResult.user_info.email = r.id_token.email
                      /\ fnResult.user_info.name = r.id_token.name
           /\ fnResult.userinfo_calls # << >>
                  => /\ ~ idOk
                     /\ fnResult.userinfo_calls = <<r.access_token>>
           /\ (~ idOk /\ (fnResult.userinfo_calls = << >>
                             \/ fnArgs.reply.kind # "ok"))
                  => fnResult.user_info = EmptyInfo

\* a result with a verified id_token and an access token was extracted
\* while the userinfo endpoint would have answered
C31_Witness ==
    /\ Applied("google_user_info")
    /\ fnArgs.oauth_result # None
    /\ fnArgs.oauth_result.id_token # None
    /\ fnArgs.oauth_result.id_token.text # ""
    /\ fnArgs.oauth_result.id_token.signed
    /\ fnArgs.oauth_result.access_token = "at1"
    /\ fnArgs.config # None
    /\ fnArgs.reply.kind = "ok"
    /\ fnArgs.oauth_result.id_token.aud = "cid"
    /\ fnResult.userinfo_calls = << >>
    /\ fnResult.user_info.id = "u1"

\* C32: when the Apple exchange result holds a well-formed id_token, the
\* identity returned by _extract_apple_user_info has the token's sub as id,
\* the token's email, email_verified and is_private_email, and provider
\* "apple".
C32_AppleIdentityFromIdToken ==
    (/\ Applied("apple_user_info")
     /\ fnArgs.oauth_result # None
     /\ fnArgs.oauth_result.id_token # None
     /\ fnArgs.oauth_result.id_token.text # ""
     /\ fnArgs.oauth_result.id_token.well_formed)
    => /\ DOMAIN fnResult.user_info =
              {"id", "email", "email_verified", "is_private_email", "provider"}
       /\ fnResult.user_info.id = fnArgs.oauth_result.id_token.sub
       /\ fnResult.user_info.email = fnArgs.oauth_result.id_token.email
       /\ fnResult.user_info.email_verified =
              fnArgs.oauth_result.id_token.email_verified
       /\ fnResult.user_info.is_private_email =
              fnArgs.oauth_result.id_token.is_private_email
       /\ fnResult.user_info.provider = "apple"

C34_OldestIsFirstSample ==
    Applied("local_storage")
    => get_oldest_training_data(fnResult.files)
          = {[text |-> fnArgs.text_data,
              voice_url |-> fnResult.first_voice_url]}

\* C35: every failure response built by handle_callback carries no
\* application JWT, neither in its page, body or deep link nor as auth_token
\* cookie; the auth_token cookie is set only on responses built with a
\* non-empty token, which are success responses.
C35_FailureCarriesNoJwt ==
    response # None
    => /\ ~ response.is_success
             => response.token = NoToken /\ response.auth_cookie = NoToken
       /\ response.auth_cookie # NoToken
             => /\ response.is_success
                /\ response.auth_cookie = locals.token
                /\ response.token = locals.token

\* a failure response was built after the token had been minted: the
\* storage callback raised
C35_Witness ==
    /\ response # None
    /\ ~ response.is_success
    /\ locals.token \notin {Unbound, NoToken}
    /\ calls.storage = "raised"

\* C36: init_auth_config creates the global AuthConfigManager only on its
\* first call; every later call returns that same manager and ignores its
\* arguments (base_dir and the callback functions), leaving the loaded
\* configs unchanged.
C36_InitOnlyOnce ==
    Applied("init_auth_config")
    => /\ fnResult.before.exists
             => /\ fnResult.raised = NONE
                /\ fnResult.returned = fnResult.before
                /\ fnResult._auth_config = fnResult.before
       /\ (~ fnResult.before.exists /\ fnResult.raised = NONE)
             => /\ fnResult._auth_config.exists
                /\ fnResult.returned = fnResult._auth_config
                /\ fnResult._auth_config.serial = fnResult.calls
                /\ fnResult._auth_config.base_dir = fnResult.base_dir
                /\ fnResult._auth_config.token_generator_func
                       = fnResult.token_generator_func
                /\ fnResult._auth_config._configs = fnResult.loadable._configs
       /\ fnResult.raised # NONE
             => ~ fnResult.before.exists /\ ~ fnResult._auth_config.exists

\* a later call, with another directory that holds other configs and with
\* another token generator, returned the manager of the first call
C36_Witness ==
    /\ Applied("init_auth_config")
    /\ fnResult.calls = 2
    /\ fnResult.before.exists
    /\ fnResult.returned.serial = 1
    /\ fnResult.returned.base_dir # fnResult.base_dir
    /\ fnResult.returned.token_generator_func # fnResult.token_generator_func
    /\ fnResult.loadable.raised = NONE
    /\ fnResult.loadable._configs # fnResult.returned._configs

\* C37: when the config directory holds both {provider}_{platform}.env and
\* {provider}_{platform}.env.example, the config served for the pair is the
\* one read from the .env file, in whatever order the directory lists the
\* two; a .env.example file never replaces a real config.
C37_EnvBeatsExample ==
    (/\ fnArgs.op = "manager"
     /\ fnResult # NoResult
     /\ fnResult.phase = "reloaded"
     /\ fnResult.raised = NONE)
    => \A real \in fnArgs.atReload, example \in fnArgs.atReload :
          (/\ ValidConfigFile(real) /\ Glob(real.name)
           /\ ValidConfigFile(example) /\ Glob(example.name)
           /\ endswith(lower(real.name), DotEnv)
           /\ endswith(lower(example.name), DotEnvExample)
           /\ _parse_config_filename(real.name)
                  = _parse_config_filename(example.name))
          => LET pair == _parse_config_filename(real.name)
             IN  /\ pair \in DOMAIN fnResult._configs
                 /\ fnResult._configs[pair]
                       = _load_config(real, pair[1], pair[2], << >>)._configs[pair]

\* C38: in /train_audio a caller who is authenticated and not an admin can
\* store training data only under their own namespace: whatever hash_id the
\* form supplies, the hash_identifier passed to the storage backend is the
\* va_dir of the caller's verified token; only an admin stores under
\* another identifier.
C38_OwnNamespaceOnly ==
    (Applied("train_audio") /\ fnResult.hash_identifier # NONE)
    => LET token == IF fnArgs.auth_token # None THEN fnArgs.auth_token
                    ELSE fnArgs.credentials
       IN  /\ token # None
           /\ token.valid
           /\ token.payload # None
           /\ (fnArgs.credentials # None => fnArgs.credentials.valid)
           /\ \/ token.payload.isAdmin
              \/ fnResult.hash_identifier = token.payload.va_dir

\* a caller who is not an admin asked to store under another user's
\* identifier, and the sample was stored under the caller's own
C38_Witness ==
    /\ Applied("train_audio")
    /\ fnArgs.auth_token = None
    /\ fnArgs.credentials # None
    /\ fnArgs.credentials.valid
    /\ fnArgs.credentials.payload # None
    /\ ~ fnArgs.credentials.payload.isAdmin
    /\ fnArgs.hash_id = "victim"
    /\ fnArgs.backend = "stored"
    /\ fnResult.status = HTTP_OK
    /\ fnResult.hash_identifier = "google_A"

\* C39: get_auth_context authenticates a request that carries a valid
\* bearer token whatever the auth_token cookie holds: with a valid bearer
\* token and an absent, invalid or expired cookie the context has
\* authenticated = True and the va_dir, admin flag and name of the bearer
\* token.
C39_BearerAuthenticates ==
    (/\ Applied("train_audio")
     /\ fnArgs.credentials # None
     /\ fnArgs.credentials.valid
     /\ fnArgs.credentials.payload # None
     /\ (fnArgs.auth_token = None \/ ~ fnArgs.auth_token.valid))
    => /\ fnResult.auth_context.authenticated
       /\ fnResult.auth_context.va_dir = fnArgs.credentials.payload.va_dir
       /\ fnResult.auth_context.is_Admin = fnArgs.credentials.payload.isAdmin
       /\ fnResult.auth_context.name = fnArgs.credentials.payload.name

====
